---- MODULE Spec2Model ----
(***************************************************************************)
(* A model of the numeric core of EchoGenesis:                             *)
(*   - EntanglementMetrics.compute_all_metrics                             *)
(*       (src/backend/app/entanglement_metrics.py)                         *)
(*   - SPSAOptimizer, QuantumNaturalGradient and HybridOptimizer           *)
(*       (src/backend/app/optimizers.py)                                   *)
(*                                                                         *)
(* Numbers.  The code works on floating point numbers; the model works on  *)
(* integers.  A loss value is an integer number of loss units.  The value  *)
(* a metric function returns is not computed (it needs eigenvalues and     *)
(* matrix square roots): a call of a metric function either returns one of *)
(* a few values or raises, and a second call with the same arguments gives *)
(* what the first one gave (the functions are pure).                       *)
(***************************************************************************)
EXTENDS Integers, Sequences, FiniteSets, TLC

VARIABLES
    \* ---- EntanglementMetrics.compute_all_metrics(state_vector, total_qubits)
    total_qubits,   \* the argument total_qubits
    m_pc,           \* position in compute_all_metrics
    m_i, m_j,       \* the loop variables i and j of the pairwise loop
    metrics,        \* the local dict metrics (the value returned)
    m_oracle,       \* what the metric functions gave for the pairs done so far
    m_three,        \* what concurrence gave inside three_tangle
    \* ---- the arguments of the optimizers' calls
    initial_params, \* the caller's initial_params
    max_iterations, \* SPSAOptimizer.optimize: max_iterations
    tolerance,      \* SPSAOptimizer.optimize: tolerance, in loss units
    loss_fn,        \* the caller's loss function
    \* ---- one SPSAOptimizer instance and its optimize call
    spsa,           \* the fields iteration, best_params, best_loss, loss_history
    s_pc,           \* position in SPSAOptimizer.optimize
    s_params,       \* the local params
    s_k,            \* the loop variable k
    s_first_loss,   \* the loss observed at the initial parameters
    s_min_at,       \* the parameters at which the least loss was first observed
    s_ret,          \* the tuple optimize returned
    s_evals,        \* the calls of loss_fn the call of optimize made, if recorded
    s_calls,        \* the number of calls of optimize that returned
    \* ---- one QuantumNaturalGradient instance and its optimize_step calls
    qng_iteration,  \* the field iteration
    q_args,         \* the arguments of the last direct call of optimize_step
    q_ret,          \* what that call gave
    q_returned,     \* the number of calls of optimize_step that returned
    \* ---- one HybridOptimizer instance and its optimize call
    hybrid,         \* the fields spsa_iterations, qng_iterations, switch_threshold
    h_pc,           \* position in HybridOptimizer.optimize
    h_params,       \* the local params
    h_loss,         \* the local loss
    h_loss_at,      \* the parameters at which the value of loss was observed
    h_spsa_history, \* the local spsa_history
    h_qng_history,  \* the local qng_history
    h_t,            \* the number of passes of the QNG loop made
    h_ret,          \* the tuple optimize returned
    h_calls,        \* the number of calls of optimize made on the instance
    h_total,        \* the sum of the lengths of the qng_history of these calls
    \* ---- one PDEHamiltonian instance and its time_dependent_evolution calls
    p_n,            \* the field n_qubits
    p_time,         \* the field time
    p_pc,           \* position in time_dependent_evolution
    p_args,         \* the arguments duration and dt, and the model function
    p_steps,        \* the local steps
    p_step,         \* the loop variable step
    p_q,            \* the loop variable q
    p_triple,       \* the locals t, h_long, h_trans, j_coupling
    p_gates,        \* the calls of apply_gate_fn made by the call, in order
    p_marks,        \* the number of gate calls made when each entry was appended
    p_history,      \* the local evolution_history
    p_ret,          \* the list the call returned
    p_first,        \* the list and the gate calls of the first call
    p_calls,        \* the number of calls made on the instance
    runs,           \* the locals of the calls in progress at the same time
    \* ---- a call of a function that keeps no state
    c_fn,           \* the function called
    c_args,         \* its arguments
    c_ret           \* what it returned

metricVars == <<total_qubits, m_pc, m_i, m_j, metrics, m_oracle, m_three>>

argVars == <<initial_params, max_iterations, tolerance, loss_fn>>

spsaVars == <<spsa, s_pc, s_params, s_k, s_first_loss, s_min_at, s_ret, s_evals,
              s_calls>>

qngVars == <<qng_iteration, q_args, q_ret, q_returned>>

hybridVars == <<hybrid, h_pc, h_params, h_loss, h_loss_at, h_spsa_history,
                h_qng_history, h_t, h_ret, h_calls, h_total>>

pdeVars == <<p_n, p_time, p_pc, p_args, p_steps, p_step, p_q, p_triple, p_gates,
             p_marks, p_history, p_ret, p_first, p_calls, runs>>

callVars == <<c_fn, c_args, c_ret>>

vars == <<metricVars, argVars, spsaVars, qngVars, hybridVars, pdeVars, callVars>>

----------------------------------------------------------------------------
(* Generic helpers *)

Max(a, b) == IF a > b THEN a ELSE b

Abs(x) == IF x < 0 THEN -x ELSE x

\* d[key] = v on a Python dict d, modelled as a function.
DictPut(d, key, v) ==
    [x \in (DOMAIN d) \cup {key} |-> IF x = key THEN v ELSE d[x]]

EmptyDict == [x \in {} |-> 0]

----------------------------------------------------------------------------
(* EntanglementMetrics *)

\* The largest total_qubits explored.
MaxQubits == 3

\* The outcome of one call: a value returned, an exception raised, or the
\* call was never made.
Ok(v) == [st |-> "ok", v |-> v]

Raised == [st |-> "raise", v |-> 0]

NotCalled == [st |-> "none", v |-> 0]

Outcomes(V) == {Ok(v) : v \in V} \cup {Raised}

\* The values the calls may return.  Concurrence lies in [0, 1] and is
\* counted in halves, so that a tangle, its square, is counted in quarters;
\* the mutual information of a pair lies in [0, 2]; negativity is counted in
\* halves.
MIVals == {2}

ConcVals == {0, 2}

NegVals == {0, 1}

\* pair = f"{i}-{j}"
PairKey(i, j) == ToString(i) \o "-" \o ToString(j)

\* TangleLinear: C for C ** 2.
TangleLinear(conc) == conc

\* tangle(): C = concurrence(...); return C ** 2
Tangle(conc) == IF conc.st = "ok" THEN Ok(conc.v * conc.v) ELSE conc

\* The dict compute_all_metrics starts from.
InitialMetrics ==
    [mutual_information |-> EmptyDict,
     concurrence        |-> EmptyDict,
     tangle             |-> EmptyDict,
     negativity         |-> EmptyDict,
     three_tangle       |-> 0,
     spectrum           |-> <<>>]

\* metrics[name][pair] = v
SetMetric(m, name, pair, v) == [m EXCEPT ![name] = DictPut(m[name], pair, v)]

\* PairFailed with the entry computed before the failure left as it is.
PairFailedKeepsComputed(m, pair) ==
    SetMetric(SetMetric(SetMetric(m, "concurrence", pair, 0),
                        "tangle", pair, 0),
              "negativity", pair, 0)

\* The except branch of the pairwise loop: all four entries of the pair are 0.
PairFailed(m, pair) ==
    SetMetric(SetMetric(SetMetric(SetMetric(m,
        "mutual_information", pair, 0),
        "concurrence", pair, 0),
        "tangle", pair, 0),
        "negativity", pair, 0)

\* The try block of the pairwise loop for one pair: the four assignments in
\* order, each made only if the call on its right-hand side returned; the
\* first call that raises ends the block in the except branch.
TryPair(m, pair, mi, conc, neg) ==
    LET m1 == SetMetric(m,  "mutual_information", pair, mi.v)
        m2 == SetMetric(m1, "concurrence", pair, conc.v)
        m3 == SetMetric(m2, "tangle", pair, Tangle(conc).v)
        m4 == SetMetric(m3, "negativity", pair, neg.v)
    IN  IF mi.st # "ok" THEN PairFailed(m, pair)
        ELSE IF conc.st # "ok" THEN PairFailed(m1, pair)
        ELSE IF Tangle(conc).st # "ok" THEN PairFailed(m2, pair)
        ELSE IF neg.st # "ok" THEN PairFailed(m3, pair)
        ELSE m4

\* NextPair with the inner loop as range(i, n).
NextPairFromSelf(i, j, n) == IF j + 1 < n THEN <<i, j + 1>> ELSE <<i + 1, i + 1>>

\* for i in range(total_qubits): for j in range(i + 1, total_qubits):
\* the loop variables after the pair (i, j).
NextPair(i, j, n) == IF j + 1 < n THEN <<i, j + 1>> ELSE <<i + 1, i + 2>>

\* The loop has a pair left to do.
HasPair == m_j < total_qubits

\* What the calls of one pair give: a call is made only if the one before it
\* returned.
PairOutcomes ==
    {o \in [mi : Outcomes(MIVals), conc : Outcomes(ConcVals) \cup {NotCalled},
            neg : Outcomes(NegVals) \cup {NotCalled}] :
        /\ (o.conc = NotCalled) <=> (o.mi.st # "ok")
        /\ (o.neg = NotCalled) <=> (o.mi.st # "ok" \/ o.conc.st # "ok")}

\* One pass of the body of the pairwise loop (lines 291-311).
MetricsPair ==
    /\ m_pc = "pairs"
    /\ HasPair
    /\ \E o \in PairOutcomes :
        LET pair == PairKey(m_i, m_j) IN
        /\ metrics' = TryPair(metrics, pair, o.mi, o.conc, o.neg)
        /\ m_oracle' = DictPut(m_oracle, pair, o)
    /\ m_i' = NextPair(m_i, m_j, total_qubits)[1]
    /\ m_j' = NextPair(m_i, m_j, total_qubits)[2]
    /\ UNCHANGED <<total_qubits, m_pc, m_three>>
    /\ UNCHANGED <<argVars, spsaVars, qngVars, hybridVars, pdeVars, callVars>>

\* What concurrence gives for the pair (a, b) when three_tangle calls it:
\* what it gave in the pairwise loop if it was called there, anything
\* otherwise.
ConcAgain(a, b) ==
    LET pair == PairKey(a, b) IN
    IF pair \in DOMAIN m_oracle /\ m_oracle[pair].conc # NotCalled
    THEN {m_oracle[pair].conc}
    ELSE Outcomes(ConcVals)

\* The 1.0 of "max(0, 1.0 - tau_01 - tau_02)", in quarters.
FullTangle == 4

\* three_tangle(state_vector, total_qubits), given what concurrence gives
\* for the pairs (0,1), (0,2) and (1,2).
ThreeTangle(n, c01, c02, c12) ==
    IF n < 3 THEN Ok(0)
    ELSE IF Tangle(c01).st # "ok" \/ Tangle(c02).st # "ok" \/ Tangle(c12).st # "ok"
         THEN Raised
         ELSE Ok(Max(0, FullTangle - Tangle(c01).v - Tangle(c02).v))

\* The end of the pairwise loop and the 3-tangle block (lines 313-318).
MetricsThreeTangle ==
    /\ m_pc = "pairs"
    /\ ~HasPair
    /\ IF total_qubits >= 3
       THEN \E c01 \in ConcAgain(0, 1), c02 \in ConcAgain(0, 2), c12 \in ConcAgain(1, 2) :
              LET r == ThreeTangle(total_qubits, c01, c02, c12) IN
              /\ metrics' = [metrics EXCEPT !.three_tangle = IF r.st = "ok" THEN r.v ELSE 0]
              /\ m_three' = <<c01, c02, c12>>
       ELSE UNCHANGED <<metrics, m_three>>
    /\ m_pc' = "spectrum"
    /\ UNCHANGED <<total_qubits, m_i, m_j, m_oracle>>
    /\ UNCHANGED <<argVars, spsaVars, qngVars, hybridVars, pdeVars, callVars>>

\* The eigenvalues of one subsystem's reduced density matrix, in halves.
EigPairs == {<<0, 2>>, <<1, 1>>}

\* The spectrum block (lines 320-326) and the return.
MetricsSpectrum ==
    /\ m_pc = "spectrum"
    /\ \/ \E e \in EigPairs :
            metrics' = [metrics EXCEPT !.spectrum = [q \in 1..total_qubits |-> e]]
       \/ metrics' = [metrics EXCEPT !.spectrum = <<>>]
    /\ m_pc' = "done"
    /\ UNCHANGED <<total_qubits, m_i, m_j, m_oracle, m_three>>
    /\ UNCHANGED <<argVars, spsaVars, qngVars, hybridVars, pdeVars, callVars>>

MetricsStart ==
    /\ total_qubits \in 0..MaxQubits
    /\ m_pc = "pairs"
    /\ m_i = 0
    /\ m_j = 1
    /\ metrics = InitialMetrics
    /\ m_oracle = EmptyDict
    /\ m_three = <<>>

\* compute_all_metrics is not running.
MetricsIdle ==
    /\ total_qubits = 0
    /\ m_pc = "idle"
    /\ m_i = 0
    /\ m_j = 1
    /\ metrics = InitialMetrics
    /\ m_oracle = EmptyDict
    /\ m_three = <<>>

----------------------------------------------------------------------------
(* Vectors and matrices: a vector is a sequence of integers, a matrix a     *)
(* sequence of rows.                                                        *)

SetMin(S) == CHOOSE x \in S : \A y \in S : x <= y

VecSub(a, b) == [i \in 1..Len(a) |-> a[i] - b[i]]

RECURSIVE DotUpTo(_, _, _)
DotUpTo(a, b, n) == IF n = 0 THEN 0 ELSE DotUpTo(a, b, n - 1) + a[n] * b[n]

\* M @ v
MatVec(M, v) == [i \in 1..Len(M) |-> DotUpTo(M[i], v, Len(v))]

\* np.eye(n)
Eye(n) == [i \in 1..n |-> [j \in 1..n |-> IF i = j THEN 1 ELSE 0]]

MatAdd(A, B) == [i \in 1..Len(A) |-> [j \in 1..Len(A) |-> A[i][j] + B[i][j]]]

\* The determinant and the adjugate of a matrix of at most two rows: the
\* inverse of A is Adj(A) / Det(A).
Det(A) ==
    IF Len(A) = 0 THEN 1
    ELSE IF Len(A) = 1 THEN A[1][1]
    ELSE A[1][1] * A[2][2] - A[1][2] * A[2][1]

Adj(A) ==
    IF Len(A) = 0 THEN <<>>
    ELSE IF Len(A) = 1 THEN <<<<1>>>>
    ELSE << <<A[2][2], -A[1][2]>>, <<-A[2][1], A[1][1]>> >>

----------------------------------------------------------------------------
(* SPSAOptimizer *)

\* The largest max_iterations explored, with an empty parameter vector and
\* with a parameter vector of one or two components.
MaxIter == 13

MaxIterVec == 4

\* The values a call of loss_fn may return.  The loss function may be noisy:
\* every call returns any of the values.
LossVals == {0, 1}

\* The tolerances explored, in loss units: 0 (no difference is below it),
\* 1 (only equal losses are closer than it) and 2 (all losses are).
Tolerances == {0, 1, 2}

\* tolerance: float = 1e-6: two losses, whole numbers of units, differ by less
\* than it exactly if they differ by less than 1.
DefaultTolerance == 1

\* k > 10 and the index -10 of the convergence check.
ConvLag == 10

\* float('inf'): a number above every loss.
Infinity == 1000000

\* The caller's loss functions: one that is noisy, of which every call
\* returns any of the values, and those that return the same value c for
\* every argument; and a loss function may record the calls made of it.
NoisyLoss == [kind |-> "noisy", c |-> 0, recording |-> FALSE]

LossFunctions ==
    [kind : {"noisy"}, c : {0}, recording : BOOLEAN]
    \cup [kind : {"flat"}, c : LossVals, recording : BOOLEAN]

\* The values loss_fn(x) may return.
LossAt(fn, x) == IF fn.kind = "flat" THEN {fn.c} ELSE LossVals

\* The record of calls after loss_fn(x) returned v.
Evaluated(evals, fn, x, v) ==
    IF fn.recording THEN Append(evals, [at |-> x, v |-> v]) ELSE evals

\* SPSAOptimizer.__init__: the fields that are not configuration.
NewSPSA ==
    [iteration    |-> 0,
     best_params  |-> <<>>,
     best_loss    |-> Infinity,
     loss_history |-> <<>>]

\* step_size(k) and perturbation_size(k) are positive reals, a / (k+1+A)^alpha
\* and c / (k+1)^gamma.  The model counts a parameter in units in which
\* a_k / (2 c_k) is 1.
StepSize(k) == 2

PerturbationSize(k) == 1

\* DeltasWithZero: randint(-1, 2) for 2 * randint(0, 2) - 1.
DeltasWithZero(n) == [1..n -> {0 - 1, 0, 1}]

\* delta = 2 * np.random.randint(0, 2, size=n_params) - 1
Deltas(n) == [1..n -> {2 * 0 - 1, 2 * 1 - 1}]

\* params + ck * delta (sign 1) and params - ck * delta (sign -1)
Perturbed(params, k, delta, sign) ==
    [i \in 1..Len(params) |-> params[i] + sign * PerturbationSize(k) * delta[i]]

\* SPSAUpdateSum: the sum of the two losses for their difference.
SPSAUpdateSum(params, k, loss_plus, loss_minus, delta) ==
    [i \in 1..Len(params) |->
        params[i] - (StepSize(k) * (loss_plus + loss_minus) * delta[i])
                        \div (2 * PerturbationSize(k))]

\* gradient_estimate = (loss_plus - loss_minus) / (2 * ck * delta)
\* params = params - ak * gradient_estimate
\* (1 / delta[i] is delta[i], for delta[i] is 1 or -1).
SPSAUpdate(params, k, loss_plus, loss_minus, delta) ==
    [i \in 1..Len(params) |->
        params[i] - (StepSize(k) * (loss_plus - loss_minus) * delta[i])
                        \div (2 * PerturbationSize(k))]

\* seq[-m] of Python.
FromEnd(seq, m) == seq[Len(seq) - m + 1]

\* Converged with k >= 10 for k > 10.
ConvergedFromLag(history, k, tol) ==
    /\ k >= ConvLag
    /\ Abs(FromEnd(history, 1) - FromEnd(history, ConvLag)) < tol

\* k > 10 and abs(self.loss_history[-1] - self.loss_history[-10]) < tolerance
Converged(history, k, tol) ==
    /\ k > ConvLag
    /\ Abs(FromEnd(history, 1) - FromEnd(history, ConvLag)) < tol

\* Record that appends nothing.
RecordNothing(history, current_loss) == history

\* self.loss_history.append(current_loss)
Record(history, current_loss) == Append(history, current_loss)

\* TrackBest with <= for <.
TrackBestOnTies(o, current_loss, params) ==
    IF current_loss <= o.best_loss
    THEN [o EXCEPT !.best_loss = current_loss, !.best_params = params]
    ELSE o

\* if current_loss < self.best_loss: ...
TrackBest(o, current_loss, params) ==
    IF current_loss < o.best_loss
    THEN [o EXCEPT !.best_loss = current_loss, !.best_params = params]
    ELSE o

\* The least of the loss observed at the initial parameters and the losses of
\* a history.
LeastLoss(first, history) ==
    SetMin({first} \cup {history[i] : i \in 1..Len(history)})

\* The entry of optimize (lines 75-80).
SPSABegin ==
    /\ s_pc = "call"
    /\ \E first \in LossAt(loss_fn, initial_params) :
        /\ spsa' = [spsa EXCEPT !.loss_history = <<>>,
                                !.best_params = initial_params,
                                !.best_loss = first]
        /\ s_first_loss' = first
        /\ s_evals' = Evaluated(<<>>, loss_fn, initial_params, first)
    /\ s_min_at' = initial_params
    /\ s_params' = initial_params
    /\ s_k' = 0
    /\ s_pc' = "loop"
    /\ UNCHANGED <<argVars, s_ret, s_calls>>
    /\ UNCHANGED <<metricVars, qngVars, hybridVars, pdeVars, callVars>>

\* One pass of the body of the loop (lines 83-112).
SPSAIterate ==
    /\ s_pc = "loop"
    /\ s_k < max_iterations
    /\ \E delta \in Deltas(Len(s_params)) :
       \E loss_plus \in LossAt(loss_fn, Perturbed(s_params, s_k, delta, 1)),
          loss_minus \in LossAt(loss_fn, Perturbed(s_params, s_k, delta, 0 - 1)) :
       \E current_loss \in
              LossAt(loss_fn, SPSAUpdate(s_params, s_k, loss_plus, loss_minus, delta)) :
        LET params  == SPSAUpdate(s_params, s_k, loss_plus, loss_minus, delta)
            history == Record(spsa.loss_history, current_loss)
        IN  /\ s_params' = params
            /\ s_evals' =
                 Evaluated(
                   Evaluated(
                     Evaluated(s_evals, loss_fn,
                               Perturbed(s_params, s_k, delta, 1), loss_plus),
                     loss_fn, Perturbed(s_params, s_k, delta, 0 - 1), loss_minus),
                   loss_fn, params, current_loss)
            /\ spsa' = TrackBest([spsa EXCEPT !.loss_history = history],
                                 current_loss, params)
            /\ s_min_at' = IF current_loss < LeastLoss(s_first_loss, spsa.loss_history)
                           THEN params ELSE s_min_at
            /\ IF Converged(history, s_k, tolerance)
               THEN s_pc' = "break" /\ s_k' = s_k
               ELSE s_pc' = "loop" /\ s_k' = s_k + 1
    /\ UNCHANGED <<argVars, s_first_loss, s_ret, s_calls>>
    /\ UNCHANGED <<metricVars, qngVars, hybridVars, pdeVars, callVars>>

\* ReturnedLast: the local params, the last iterate, returned.
ReturnedLast(o, params) == params

\* return self.best_params, ...: the first component.
Returned(o, params) == o.best_params

\* The loop is over: the budget is used up, or the convergence check broke
\* out of it.  return self.best_params, self.best_loss, self.loss_history
\* The locals params and k end with the call.
SPSAReturn ==
    /\ \/ s_pc = "break"
       \/ s_pc = "loop" /\ s_k >= max_iterations
    /\ s_ret' = [params |-> Returned(spsa, s_params), loss |-> spsa.best_loss,
                 history |-> spsa.loss_history]
    /\ s_calls' = s_calls + 1
    /\ s_pc' = "done"
    /\ s_params' = <<>>
    /\ s_k' = 0
    /\ UNCHANGED <<argVars, spsa, s_first_loss, s_min_at, s_evals>>
    /\ UNCHANGED <<metricVars, qngVars, hybridVars, pdeVars, callVars>>

NoReturn == [params |-> <<>>, loss |-> 0, history |-> <<>>]

\* The largest number of calls of optimize explored on one SPSAOptimizer.
MaxSpsaCalls == 2

\* The caller calls optimize again on the same instance with the same
\* arguments; the fields of the instance and the tuple the caller got are
\* as the call before left them.
SPSAAgain ==
    /\ h_pc = "idle"
    /\ s_pc = "done"
    /\ s_calls < MaxSpsaCalls
    /\ s_pc' = "call"
    /\ UNCHANGED <<argVars, spsa, s_params, s_k, s_first_loss, s_min_at, s_ret,
                   s_evals, s_calls>>
    /\ UNCHANGED <<metricVars, qngVars, hybridVars, pdeVars, callVars>>

\* A fresh instance, not in a call.
SPSAIdle ==
    /\ spsa = NewSPSA
    /\ s_pc = "idle"
    /\ s_params = <<>>
    /\ s_k = 0
    /\ s_first_loss = 0
    /\ s_min_at = <<>>
    /\ s_ret = NoReturn
    /\ s_evals = <<>>
    /\ s_calls = 0

----------------------------------------------------------------------------
(* QuantumNaturalGradient *)

\* The largest number of direct calls of optimize_step explored.
MaxQngCalls == 2

\* epsilon: float = 1e-8.  A Fisher matrix is counted in units of epsilon, so
\* that F + epsilon * I is F + I, and the inverse of the regularized matrix
\* is this number times the inverse of F + I.
InvEpsilon == 100000000

\* learning_rate: float = 0.01.  A parameter is counted in units of
\* learning_rate times the unit of the gradient, so that
\* learning_rate * natural_gradient is natural_gradient.
LearningRate == 1

\* The components of the parameter and gradient arguments, and the entries
\* of a Fisher matrix.
QngVals == {0, 1}

FisherVals == {-1, 0, 1}

Vectors(n) == [1..n -> QngVals]

\* F_reg = F + self.epsilon * np.eye(len(params))
Regularized(F) == MatAdd(F, Eye(Len(F)))

\* np.linalg.inv(F_reg) raises LinAlgError exactly if F_reg is singular.
Singular(A) == Det(A) = 0

\* The matrices compute_fisher_information may return: symmetric, and such
\* that the natural gradient is a whole number of units.
FisherMatrices(n) ==
    {F \in [1..n -> [1..n -> FisherVals]] :
        /\ \A i \in 1..n : \A j \in 1..n : F[i][j] = F[j][i]
        /\ \/ Singular(Regularized(F))
           \/ InvEpsilon % Abs(Det(Regularized(F))) = 0}

\* F_inv @ gradient, where F_inv = np.linalg.inv(F_reg) and F_reg is regular.
InverseTimes(F_reg, gradient) ==
    LET d == Det(F_reg)
        s == IF d < 0 THEN -1 ELSE 1
        v == MatVec(Adj(F_reg), gradient)
    IN  [i \in 1..Len(gradient) |-> (InvEpsilon * s * v[i]) \div Abs(d)]

\* CaughtByStep of a handler for another exception.
CaughtOther == {"ValueError"}

\* The exceptions the except clause of optimize_step catches.
CaughtByStep == {"LinAlgError"}

\* optimize_step from "F_reg = ..." to "params_new = ..." (lines 205-216),
\* given the matrix F that compute_fisher_information returned: the
\* parameters it returns, or the exception that leaves it.
OptimizeStep(params, gradient, F) ==
    LET F_reg == Regularized(F)
        failed == Singular(F_reg)
        natural_gradient ==
            IF failed THEN gradient ELSE InverseTimes(F_reg, gradient)
        step == [i \in 1..Len(params) |-> LearningRate * natural_gradient[i]]
    IN  IF failed /\ "LinAlgError" \notin CaughtByStep
        THEN [st |-> "raise", v |-> <<>>]
        ELSE [st |-> "ok", v |-> VecSub(params, step)]

\* IterationKept: the counter left as it is.
IterationKept(iteration) == iteration

\* self.iteration += 1
NextIteration(iteration) == iteration + 1

NoArgs == [params |-> <<>>, gradient |-> <<>>, F |-> <<>>]

NoResult == [st |-> "none", v |-> <<>>]

\* A direct call of optimize_step(params, gradient, state_fn) that returns
\* or raises (lines 201-219).
QNGStep ==
    /\ h_pc = "idle"
    /\ q_returned < MaxQngCalls
    /\ q_ret.st # "raise"
    /\ \E n \in {1, 2} :
       \E params \in Vectors(n), gradient \in Vectors(n), F \in FisherMatrices(n) :
        LET r == OptimizeStep(params, gradient, F) IN
        /\ q_args' = [params |-> params, gradient |-> gradient, F |-> F]
        /\ q_ret' = r
        /\ qng_iteration' = IF r.st = "ok" THEN NextIteration(qng_iteration)
                                          ELSE qng_iteration
        /\ q_returned' = IF r.st = "ok" THEN q_returned + 1 ELSE q_returned
    /\ UNCHANGED <<metricVars, argVars, spsaVars, hybridVars, pdeVars, callVars>>

\* A fresh instance.
QNGIdle ==
    /\ qng_iteration = 0
    /\ q_args = NoArgs
    /\ q_ret = NoResult
    /\ q_returned = 0

----------------------------------------------------------------------------
(* HybridOptimizer *)

\* The largest qng_iterations explored.
MaxQngIter == 1

\* if len(spsa_history) > 10:
SwitchMinHistory == 10

\* switch_threshold: float = 0.1: an improvement, a whole number of loss
\* units, exceeds it exactly if it exceeds 0.
DefaultSwitchThreshold == 0

\* _estimate_gradient(loss_fn, params): gradient[i] =
\* (loss_fn(params_plus) - loss_fn(params_minus)) / (2 * delta), given the
\* losses the two calls for each component returned; a gradient is counted
\* in units of 1 / (2 * delta).
EstimateGradient(plus, minus) == [i \in 1..Len(plus) |-> plus[i] - minus[i]]

LossVectors(n) == [1..n -> LossVals]

\* The values the call of loss_fn that tracks the loss of the QNG phase may
\* return: the loss function may return less there than it ever did during
\* the SPSA phase.
LateLossVals == LossVals \cup {0 - 1}

\* TrackLoss that keeps the last loss.
TrackLastLoss(loss, current_loss) == current_loss

\* if current_loss < loss: loss = current_loss
TrackLoss(loss, current_loss) == IF current_loss < loss THEN current_loss ELSE loss

\* TotalIterations that counts the SPSA phase alone.
TotalOfSPSA(spsa_history, qng_history) == Len(spsa_history)

\* len(spsa_history) + len(qng_history)
TotalIterations(spsa_history, qng_history) == Len(spsa_history) + Len(qng_history)

\* The call of self.spsa.optimize (lines 268-272).
HybridCall ==
    /\ h_pc = "call"
    /\ s_pc = "idle"
    /\ max_iterations' = hybrid.spsa_iterations
    /\ tolerance' = DefaultTolerance
    /\ s_pc' = "call"
    /\ h_pc' = "spsa"
    /\ UNCHANGED <<initial_params, loss_fn, spsa, s_params, s_k, s_first_loss,
                   s_min_at, s_ret, s_evals, s_calls>>
    /\ h_calls' = h_calls + 1
    /\ UNCHANGED <<hybrid, h_params, h_loss, h_loss_at, h_spsa_history,
                   h_qng_history, h_t, h_ret, h_total>>
    /\ UNCHANGED <<metricVars, qngVars, pdeVars, callVars>>

\* SwitchToQNG with >= 10 for > 10.
SwitchAtMinHistory(spsa_history, threshold) ==
    /\ Len(spsa_history) >= SwitchMinHistory
    /\ spsa_history[1] - FromEnd(spsa_history, 1) > threshold

\* The QNG phase runs (lines 276-279).
SwitchToQNG(spsa_history, threshold) ==
    /\ Len(spsa_history) > SwitchMinHistory
    /\ spsa_history[1] - FromEnd(spsa_history, 1) > threshold

\* self.spsa.optimize has returned: the assignment of its result and the
\* test that guards the QNG phase (lines 268-280).
HybridDecide ==
    /\ h_pc = "spsa"
    /\ s_pc = "done"
    /\ h_params' = s_ret.params
    /\ h_loss' = s_ret.loss
    /\ h_loss_at' = s_ret.params
    /\ h_spsa_history' = s_ret.history
    /\ h_qng_history' = <<>>
    /\ h_t' = 0
    /\ h_pc' = IF SwitchToQNG(s_ret.history, hybrid.switch_threshold)
               THEN "qng" ELSE "report"
    /\ s_pc' = "idle"
    /\ UNCHANGED <<argVars, spsa, s_params, s_k, s_first_loss, s_min_at, s_ret,
                   s_evals, s_calls>>
    /\ UNCHANGED <<hybrid, h_ret, h_calls, h_total>>
    /\ UNCHANGED <<metricVars, qngVars, pdeVars, callVars>>

\* One pass of the QNG loop (lines 282-294).
HybridQNGStep ==
    /\ h_pc = "qng"
    /\ h_t < hybrid.qng_iterations
    /\ \E plus \in LossVectors(Len(h_params)), minus \in LossVectors(Len(h_params)),
          F \in FisherMatrices(Len(h_params)), current_loss \in LateLossVals :
        LET gradient == EstimateGradient(plus, minus)
            r == OptimizeStep(h_params, gradient, F)
        IN  IF r.st = "ok"
            THEN /\ h_params' = r.v
                 /\ qng_iteration' = NextIteration(qng_iteration)
                 /\ q_returned' = q_returned + 1
                 /\ h_qng_history' = Append(h_qng_history, current_loss)
                 /\ h_loss' = TrackLoss(h_loss, current_loss)
                 /\ h_loss_at' = IF current_loss < h_loss THEN r.v ELSE h_loss_at
                 /\ h_t' = h_t + 1
                 /\ h_pc' = "qng"
            ELSE /\ h_pc' = "raised"
                 /\ UNCHANGED <<h_params, qng_iteration, q_returned, h_qng_history,
                                h_loss, h_loss_at, h_t>>
    /\ UNCHANGED <<hybrid, h_spsa_history, h_ret, h_calls, h_total, q_args, q_ret>>
    /\ UNCHANGED <<metricVars, argVars, spsaVars, pdeVars, callVars>>

NoReport == [params |-> <<>>, loss |-> 0, info |-> [x \in {} |-> 0]]

\* info = {...}; return params, loss, info (lines 296-302).
HybridReturn ==
    /\ \/ h_pc = "report"
       \/ h_pc = "qng" /\ h_t >= hybrid.qng_iterations
    /\ h_ret' = [params |-> h_params,
                 loss   |-> h_loss,
                 info   |-> [spsa_history     |-> h_spsa_history,
                             qng_history      |-> h_qng_history,
                             total_iterations |-> TotalIterations(h_spsa_history, h_qng_history)]]
    /\ h_pc' = "done"
    /\ h_total' = h_total + Len(h_qng_history)
    /\ UNCHANGED <<hybrid, h_params, h_loss, h_loss_at, h_spsa_history,
                   h_qng_history, h_t, h_calls>>
    /\ UNCHANGED <<metricVars, argVars, spsaVars, qngVars, pdeVars, callVars>>

\* The largest number of calls of optimize explored on one instance.
MaxHybridCalls == 2

\* The caller calls optimize again on the same instance, with the same
\* arguments; the locals and the tuple of the call before are gone.
HybridAgain ==
    /\ h_pc = "done"
    /\ h_calls < MaxHybridCalls
    /\ h_pc' = "call"
    /\ h_params' = <<>>
    /\ h_loss' = 0
    /\ h_loss_at' = <<>>
    /\ h_spsa_history' = <<>>
    /\ h_qng_history' = <<>>
    /\ h_t' = 0
    /\ h_ret' = NoReport
    /\ s_ret' = NoReturn
    /\ UNCHANGED <<hybrid, h_calls, h_total>>
    /\ UNCHANGED <<argVars, spsa, s_pc, s_params, s_k, s_first_loss, s_min_at,
                   s_evals, s_calls>>
    /\ UNCHANGED <<metricVars, qngVars, pdeVars, callVars>>

\* No HybridOptimizer is in use.
HybridIdle ==
    /\ hybrid = [spsa_iterations |-> 0, qng_iterations |-> 0, switch_threshold |-> 0]
    /\ h_pc = "idle"
    /\ h_params = <<>>
    /\ h_loss = 0
    /\ h_loss_at = <<>>
    /\ h_spsa_history = <<>>
    /\ h_qng_history = <<>>
    /\ h_t = 0
    /\ h_ret = NoReport
    /\ h_calls = 0
    /\ h_total = 0

ArgsIdle ==
    /\ initial_params = <<>>
    /\ max_iterations = 0
    /\ tolerance = 0
    /\ loss_fn = NoisyLoss

----------------------------------------------------------------------------
(* PDEHamiltonian *)

\* The largest n_qubits, the largest duration and the largest number of
\* calls on one instance explored.
MaxPdeQubits == 2

MaxDuration == 3

MaxPdeCalls == 2

\* The values of dt explored, in the unit of duration.
TimeSteps == {1, 2}

\* The values of j_coupling explored, in tenths: negative, 0.1 and 0.2.
CouplingVals == {0 - 1, 1, 2}

\* if j_coupling > 0.1, in tenths.
CouplingThreshold == 1

\* What a model function returns: (h_long, h_trans, j_coupling).
Triples == {[long |-> 3, trans |-> 5, coupling |-> c] : c \in CouplingVals}

\* hamiltonian_type and kwargs select a function of t: heat_diffusion_,
\* wave_oscillation_, schrodinger_coherent_, reaction_diffusion_ or
\* adaptive_hamiltonian with these keyword arguments.  None of them reads or
\* writes a field of the instance.
Hamiltonians == [0..(MaxDuration - 1) -> Triples]

\* StepsRounded: the quotient rounded up.
StepsRounded(duration, dt) == (duration + dt - 1) \div dt

\* steps = int(duration / dt)
Steps(duration, dt) == duration \div dt

\* t = step * dt
StepTime(step, dt) == step * dt

\* The entry (t, h_long, h_trans, j_coupling) of a step.
Entry(t, triple) ==
    [t |-> t, long |-> triple.long, trans |-> triple.trans,
     coupling |-> triple.coupling]

Gate(kind, q, angle) == [kind |-> kind, q |-> q, angle |-> angle]

\* CouplesFrom: j_coupling >= 0.1 for j_coupling > 0.1.
CouplesFrom(coupling, q, n) == coupling >= CouplingThreshold /\ q < n - 1

\* if j_coupling > 0.1 and q < self.n_qubits - 1
Couples(coupling, q, n) == coupling > CouplingThreshold /\ q < n - 1

\* GatesXZ: RX before RZ.
GatesXZ(q, n, e, dt) ==
    <<Gate("RX", q, e.trans * dt), Gate("RZ", q, e.long * dt)>>
    \o (IF Couples(e.coupling, q, n)
        THEN <<Gate("RY", q, e.coupling * dt)>> ELSE <<>>)

\* The body of "for q in range(self.n_qubits)": the calls of apply_gate_fn
\* for subsystem q, in order.  The angle of RY, j_coupling * dt * 0.1 with
\* j_coupling in tenths, is in hundredths.
GatesFor(q, n, e, dt) ==
    <<Gate("RZ", q, e.long * dt), Gate("RX", q, e.trans * dt)>>
    \o (IF Couples(e.coupling, q, n)
        THEN <<Gate("RY", q, e.coupling * dt)>> ELSE <<>>)

\* HistoryKept: the list of the call before, kept and extended.
HistoryKept(previous) == previous

\* evolution_history = []: a new list, whatever the call before returned.
NewHistory(previous) == <<>>

\* The record of gate calls: each call with the step that made it.
Tagged(step, gates) ==
    [i \in 1..Len(gates) |->
        [step |-> step, kind |-> gates[i].kind, q |-> gates[i].q,
         angle |-> gates[i].angle]]

NoEntry == [t |-> 0, long |-> 0, trans |-> 0, coupling |-> 0]

NoFirst == [history |-> <<>>, gates |-> <<>>]

\* The entry of time_dependent_evolution (lines 228-229).
PDEBegin ==
    /\ p_pc = "call"
    /\ p_history' = NewHistory(p_ret)
    /\ p_steps' = Steps(p_args.duration, p_args.dt)
    /\ p_step' = 0
    /\ p_gates' = <<>>
    /\ p_marks' = <<>>
    /\ p_pc' = "step"
    /\ UNCHANGED <<p_n, p_time, p_args, p_q, p_triple, p_ret, p_first, p_calls, runs>>
    /\ UNCHANGED <<metricVars, argVars, spsaVars, qngVars, hybridVars, callVars>>

\* The head of a step: t and the model function's triple (lines 231-244).
PDEStep ==
    /\ p_pc = "step"
    /\ p_step < p_steps
    /\ LET t == StepTime(p_step, p_args.dt)
       IN  p_triple' = Entry(t, p_args.hamiltonian[t])
    /\ p_q' = 0
    /\ p_pc' = "gates"
    /\ UNCHANGED <<p_n, p_time, p_args, p_steps, p_step, p_gates, p_marks,
                   p_history, p_ret, p_first, p_calls, runs>>
    /\ UNCHANGED <<metricVars, argVars, spsaVars, qngVars, hybridVars, callVars>>

\* The gates of one subsystem (lines 247-253).
PDEGates ==
    /\ p_pc = "gates"
    /\ p_q < p_n
    /\ p_gates' = p_gates \o Tagged(p_step, GatesFor(p_q, p_n, p_triple, p_args.dt))
    /\ p_q' = p_q + 1
    /\ UNCHANGED <<p_n, p_time, p_pc, p_args, p_steps, p_step, p_triple, p_marks,
                   p_history, p_ret, p_first, p_calls, runs>>
    /\ UNCHANGED <<metricVars, argVars, spsaVars, qngVars, hybridVars, callVars>>

\* evolution_history.append((t, h_long, h_trans, j_coupling)) (line 255).
PDEAppend ==
    /\ p_pc = "gates"
    /\ p_q >= p_n
    /\ p_history' = Append(p_history, p_triple)
    /\ p_marks' = Append(p_marks, Len(p_gates))
    /\ p_step' = p_step + 1
    /\ p_pc' = "step"
    /\ UNCHANGED <<p_n, p_time, p_args, p_steps, p_q, p_triple, p_gates, p_ret,
                   p_first, p_calls, runs>>
    /\ UNCHANGED <<metricVars, argVars, spsaVars, qngVars, hybridVars, callVars>>

\* return evolution_history (line 257).
PDEReturn ==
    /\ p_pc = "step"
    /\ p_step >= p_steps
    /\ p_ret' = p_history
    /\ p_calls' = p_calls + 1
    /\ p_first' = IF p_calls = 0
                  THEN [history |-> p_history, gates |-> p_gates] ELSE p_first
    /\ p_pc' = "done"
    /\ UNCHANGED <<p_n, p_time, p_args, p_steps, p_step, p_q, p_triple, p_gates,
                   p_marks, p_history, runs>>
    /\ UNCHANGED <<metricVars, argVars, spsaVars, qngVars, hybridVars, callVars>>

\* The caller calls time_dependent_evolution again on the same instance with
\* the same arguments; the locals of the call before are gone, the list it
\* returned is still the caller's.
PDEAgain ==
    /\ p_pc = "done"
    /\ p_calls < MaxPdeCalls
    /\ p_pc' = "call"
    /\ p_steps' = 0
    /\ p_step' = 0
    /\ p_q' = 0
    /\ p_triple' = NoEntry
    /\ p_history' = <<>>
    /\ UNCHANGED <<p_n, p_time, p_args, p_gates, p_marks, p_ret, p_first, p_calls, runs>>
    /\ UNCHANGED <<metricVars, argVars, spsaVars, qngVars, hybridVars, callVars>>

\* Calls of time_dependent_evolution that are in progress on one instance
\* at the same time.  Each call has its own locals (evolution_history,
\* steps, step, t, the triple, q) and its own apply_gate_fn, whose calls are
\* recorded in gates; the instance's fields are the only state they share.
NoRun(args) ==
    [pc |-> "call", args |-> args, steps |-> 0, step |-> 0, q |-> 0,
     triple |-> NoEntry, history |-> <<>>, gates |-> <<>>, ret |-> <<>>,
     met |-> FALSE]

\* Whether a step of call r has been taken while another call was between
\* its entry and its return; kept for the properties only.
Met(r) ==
    \/ runs[r].met
    \/ \E o \in DOMAIN runs \ {r} : runs[o].pc \in {"step", "gates"}

\* TimeWritten: a step stores its t in self.time.
TimeWritten(time, t) == t

\* self.time after the head of a step: neither time_dependent_evolution nor
\* a model function assigns it (line 31 is its only assignment).
TimeAfterStep(time, t) == time

\* The entry of a call in progress (lines 228-229).
RunBegin ==
    \E r \in DOMAIN runs :
        /\ runs[r].pc = "call"
        /\ runs' = [runs EXCEPT ![r].history = <<>>,
                                ![r].steps = Steps(runs[r].args.duration,
                                                   runs[r].args.dt),
                                ![r].step = 0,
                                ![r].met = Met(r),
                                ![r].pc = "step"]
        /\ UNCHANGED <<p_n, p_time, p_pc, p_args, p_steps, p_step, p_q,
                       p_triple, p_gates, p_marks, p_history, p_ret, p_first,
                       p_calls>>
        /\ UNCHANGED <<metricVars, argVars, spsaVars, qngVars, hybridVars,
                       callVars>>

\* The head of a step of a call in progress (lines 231-244).
RunStep ==
    \E r \in DOMAIN runs :
        /\ runs[r].pc = "step"
        /\ runs[r].step < runs[r].steps
        /\ LET t == StepTime(runs[r].step, runs[r].args.dt)
           IN  /\ runs' = [runs EXCEPT
                              ![r].triple = Entry(t, runs[r].args.hamiltonian[t]),
                              ![r].q = 0,
                              ![r].met = Met(r),
                              ![r].pc = "gates"]
               /\ p_time' = TimeAfterStep(p_time, t)
        /\ UNCHANGED <<p_n, p_pc, p_args, p_steps, p_step, p_q, p_triple,
                       p_gates, p_marks, p_history, p_ret, p_first, p_calls>>
        /\ UNCHANGED <<metricVars, argVars, spsaVars, qngVars, hybridVars,
                       callVars>>

\* The gates of one subsystem in a call in progress (lines 247-253).
RunGates ==
    \E r \in DOMAIN runs :
        /\ runs[r].pc = "gates"
        /\ runs[r].q < p_n
        /\ runs' = [runs EXCEPT
                       ![r].gates = runs[r].gates
                                    \o Tagged(runs[r].step,
                                              GatesFor(runs[r].q, p_n,
                                                       runs[r].triple,
                                                       runs[r].args.dt)),
                       ![r].met = Met(r),
                       ![r].q = runs[r].q + 1]
        /\ UNCHANGED <<p_n, p_time, p_pc, p_args, p_steps, p_step, p_q,
                       p_triple, p_gates, p_marks, p_history, p_ret, p_first,
                       p_calls>>
        /\ UNCHANGED <<metricVars, argVars, spsaVars, qngVars, hybridVars,
                       callVars>>

\* evolution_history.append(...) in a call in progress (line 255).
RunAppend ==
    \E r \in DOMAIN runs :
        /\ runs[r].pc = "gates"
        /\ runs[r].q >= p_n
        /\ runs' = [runs EXCEPT
                       ![r].history = Append(runs[r].history, runs[r].triple),
                       ![r].step = runs[r].step + 1,
                       ![r].met = Met(r),
                       ![r].pc = "step"]
        /\ UNCHANGED <<p_n, p_time, p_pc, p_args, p_steps, p_step, p_q,
                       p_triple, p_gates, p_marks, p_history, p_ret, p_first,
                       p_calls>>
        /\ UNCHANGED <<metricVars, argVars, spsaVars, qngVars, hybridVars,
                       callVars>>

\* return evolution_history in a call in progress (line 257).
RunReturn ==
    \E r \in DOMAIN runs :
        /\ runs[r].pc = "step"
        /\ runs[r].step >= runs[r].steps
        /\ runs' = [runs EXCEPT ![r].ret = runs[r].history,
                                ![r].met = Met(r),
                                ![r].pc = "done"]
        /\ UNCHANGED <<p_n, p_time, p_pc, p_args, p_steps, p_step, p_q,
                       p_triple, p_gates, p_marks, p_history, p_ret, p_first,
                       p_calls>>
        /\ UNCHANGED <<metricVars, argVars, spsaVars, qngVars, hybridVars,
                       callVars>>

\* No PDEHamiltonian is in use.
PDEIdle ==
    /\ p_n = 0
    /\ p_time = 0
    /\ p_pc = "idle"
    /\ p_args = [duration |-> 0, dt |-> 1, hamiltonian |-> <<>>]
    /\ p_steps = 0
    /\ p_step = 0
    /\ p_q = 0
    /\ p_triple = NoEntry
    /\ p_gates = <<>>
    /\ p_marks = <<>>
    /\ p_history = <<>>
    /\ p_ret = <<>>
    /\ p_first = NoFirst
    /\ p_calls = 0
    /\ runs = <<>>

----------------------------------------------------------------------------
(* PDEHamiltonian.adaptive_hamiltonian *)

\* The argument needs: None, or a dict.
NoNeeds == [kind |-> "None", d |-> EmptyDict]

NeedsDict(d) == [kind |-> "dict", d |-> d]

NeedLevels == {0, 100}

\* {"comfort": 50, "stimulation": 50, "connection": 50}
DefaultNeeds == [comfort |-> 50, stimulation |-> 50, connection |-> 50]

NeedsArgs ==
    {NoNeeds, NeedsDict(EmptyDict)}
    \cup {NeedsDict(d) : d \in [{"comfort", "stimulation", "connection"} -> NeedLevels]}

\* The labels explored: the listed ones, others, and listed ones in another
\* letter case.
Labels ==
    {"anxious", "stressed", "overwhelmed", "excited", "joyful", "energetic",
     "lonely", "disconnected", "calm", "neutral", "Anxious", "JOYFUL", "Lonely"}

\* needs or {...}: None and the empty dict are false.
NeedsOrDefault(needs) ==
    IF needs.kind = "None" \/ DOMAIN needs.d = {} THEN DefaultNeeds ELSE needs.d

\* SelectFolded: the label compared in lower case.
SelectFolded(emotional_state) ==
    IF emotional_state \in {"anxious", "stressed", "overwhelmed", "Anxious"} THEN "heat"
    ELSE IF emotional_state \in {"excited", "joyful", "energetic", "JOYFUL"} THEN "wave"
    ELSE IF emotional_state \in {"lonely", "disconnected", "Lonely"}
         THEN "reaction_diffusion"
    ELSE "schrodinger"

\* The if/elif/else of adaptive_hamiltonian (lines 186-205): the model
\* function called.
SelectModel(emotional_state) ==
    IF emotional_state \in {"anxious", "stressed", "overwhelmed"} THEN "heat"
    ELSE IF emotional_state \in {"excited", "joyful", "energetic"} THEN "wave"
    ELSE IF emotional_state \in {"lonely", "disconnected"} THEN "reaction_diffusion"
    ELSE "schrodinger"

\* The keyword arguments the model function is called with, as numerators:
\* diffusion_rate = 1.0 + (100 - comfort) / 100 and amplitude, stimulus in
\* hundredths, frequency = 0.5 + stimulation / 200 in two-hundredths,
\* coherence_time = 10.0 + comfort / 10 in tenths.
ModelArgs(model, n) ==
    IF model = "heat" THEN [diffusion_rate |-> 100 + (100 - n.comfort)]
    ELSE IF model = "wave"
         THEN [frequency |-> 100 + n.stimulation, amplitude |-> 100 + n.stimulation]
    ELSE IF model = "reaction_diffusion" THEN [stimulus |-> 100 - n.connection]
    ELSE [coherence_time |-> 100 + n.comfort]

\* adaptive_hamiltonian(t, emotional_state, needs): the call of a model
\* function it makes and returns the value of.
AdaptiveHamiltonian(t, emotional_state, needs) ==
    LET n == NeedsOrDefault(needs)
        model == SelectModel(emotional_state)
    IN  [model |-> model, t |-> t, args |-> ModelArgs(model, n)]

\* A call of adaptive_hamiltonian between two calls of
\* time_dependent_evolution on the same instance.
PDEBetween ==
    /\ p_pc = "done"
    /\ \E t \in {0}, emotional_state \in {"anxious", "calm"}, needs \in {NoNeeds} :
        /\ c_fn' = "adaptive_hamiltonian"
        /\ c_args' = [t |-> t, emotional_state |-> emotional_state, needs |-> needs]
        /\ c_ret' = AdaptiveHamiltonian(t, emotional_state, needs)
    /\ UNCHANGED <<metricVars, argVars, spsaVars, qngVars, hybridVars, pdeVars>>

\* A call of adaptive_hamiltonian.
AdaptiveCall ==
    /\ p_pc = "idle"
    /\ \E t \in 0..1, emotional_state \in Labels, needs \in NeedsArgs :
        /\ c_fn' = "adaptive_hamiltonian"
        /\ c_args' = [t |-> t, emotional_state |-> emotional_state, needs |-> needs]
        /\ c_ret' = AdaptiveHamiltonian(t, emotional_state, needs)
    /\ UNCHANGED <<metricVars, argVars, spsaVars, qngVars, hybridVars, pdeVars>>

----------------------------------------------------------------------------
(* QuantumNaturalGradient.compute_fisher_information *)

\* The largest len(params) explored.
MaxFisherDim == 3

\* F = np.zeros((n, n))
Zeros(n) == [i \in 1..n |-> [j \in 1..n |-> 0]]

\* The pairs (i, j) of "for i in range(n): for j in range(i, n)", from 1.
UpperPairs(n) == {ij \in (1..n) \X (1..n) : ij[1] <= ij[2]}

\* SetUpper: the assignment of F[i, j] alone.
SetUpper(F, i, j, v) == [F EXCEPT ![i][j] = v]

\* F[i, j] = ...; F[j, i] = F[i, j]
SetElement(F, i, j, v) == [[F EXCEPT ![i][j] = v] EXCEPT ![j][i] = v]

\* The two loops from the pair (i, j) on (lines 160-180); element[<<i, j>>]
\* is the value of 4 * np.real(...) for the pair, which depends on state_fn.
RECURSIVE FisherLoop(_, _, _, _, _)
FisherLoop(F, i, j, n, element) ==
    IF i > n THEN F
    ELSE IF j > n THEN FisherLoop(F, i + 1, i + 1, n, element)
    ELSE FisherLoop(SetElement(F, i, j, element[<<i, j>>]), i, j + 1, n, element)

\* compute_fisher_information for n parameters.
ComputeFisher(n, element) == FisherLoop(Zeros(n), 1, 1, n, element)

\* A call of compute_fisher_information.
FisherCall ==
    /\ c_fn = "none"
    /\ \E n \in 0..MaxFisherDim :
       \E element \in [UpperPairs(n) -> FisherVals] :
        /\ c_fn' = "compute_fisher_information"
        /\ c_args' = [n |-> n, element |-> element]
        /\ c_ret' = ComputeFisher(n, element)
    /\ UNCHANGED <<metricVars, argVars, spsaVars, qngVars, hybridVars, pdeVars>>

----------------------------------------------------------------------------
(* EntanglementMetrics.negativity *)

\* The largest eigenvalue explored.
MaxEig == 4

\* The number 1 of "(trace_norm - 1) / 2", in the unit of the eigenvalues: an
\* eigenvalue is counted in quarters.
One == 4

\* What np.linalg.eigvalsh(rho_pt) may return: four eigenvalues in ascending
\* order.  Rounding may leave their sum above or below 1.
Spectra ==
    {e \in [1..4 -> (0 - 1)..MaxEig] : \A i \in 1..3 : e[i] <= e[i + 1]}

RECURSIVE SumAbs(_, _)
SumAbs(e, n) == IF n = 0 THEN 0 ELSE SumAbs(e, n - 1) + Abs(e[n])

\* trace_norm = np.sum(np.abs(eigenvalues))
TraceNorm(eigenvalues) == SumAbs(eigenvalues, Len(eigenvalues))

\* N = (trace_norm - 1) / 2; return float(N).  The value is counted in
\* eighths, so that the division is exact.
Negativity(eigenvalues) == TraceNorm(eigenvalues) - One

\* A call of negativity whose partially transposed matrix has these
\* eigenvalues.
NegativityCall ==
    /\ c_fn = "none"
    /\ \E eigenvalues \in Spectra :
        /\ c_fn' = "negativity"
        /\ c_args' = eigenvalues
        /\ c_ret' = Negativity(eigenvalues)
    /\ UNCHANGED <<metricVars, argVars, spsaVars, qngVars, hybridVars, pdeVars>>

----------------------------------------------------------------------------
(* EntanglementMetrics.partial_trace and entanglement_spectrum *)

\* The largest total_qubits explored for a state vector given by its
\* amplitudes.
MaxTraceQubits == 2

\* A complex number is a pair of whole numbers, the real and the imaginary
\* part.  A state vector of squared norm N stands for the normalized vector
\* with the amplitudes divided by the square root of N.
Amplitudes == {<<0, 0>>, <<1, 0>>, <<0, 1>>}

CAdd(a, b) == <<a[1] + b[1], a[2] + b[2]>>

CMul(a, b) == <<a[1] * b[1] - a[2] * b[2], a[1] * b[2] + a[2] * b[1]>>

\* ConjNone: the number itself for its conjugate.
ConjNone(a) == a

\* state_vector.conj(), for one amplitude
Conj(a) == <<a[1], 0 - a[2]>>

\* The largest number of amplitudes of a state vector that are not 0.
MaxSupport == 3

StateVectors(n) ==
    {v \in [0..(2 ^ n - 1) -> Amplitudes] :
        Cardinality({r \in DOMAIN v : v[r] # <<0, 0>>}) <= MaxSupport}

\* The keep_qubits explored: the lists of distinct indices below n.
KeepLists(n) ==
    UNION {{k \in [1..m -> 0..(n - 1)] :
              \A i \in 1..m : \A j \in 1..m : k[i] = k[j] => i = j} : m \in 0..n}

\* rho = np.outer(state_vector, state_vector.conj())
Outer(state, n) ==
    [r \in 0..(2 ^ n - 1) |-> [c \in 0..(2 ^ n - 1) |-> CMul(state[r], Conj(state[c]))]]

\* The position in row-major order of the entry with these indices along
\* axes of length 2: the first axis is the most significant.
RECURSIVE Flat(_, _)
Flat(idx, len) ==
    IF len = 0 THEN 0 ELSE 2 * Flat(idx, len - 1) + idx[len]

\* The tensors with len axes of length 2 are the functions on these.
Indices(len) == [1..len -> {0, 1}]

\* rho.reshape(dims + dims), dims = [2] * total_qubits
Reshaped(rho, n) ==
    [idx \in Indices(2 * n) |->
        rho[Flat(idx, n)][Flat([i \in 1..n |-> idx[n + i]], n)]]

\* The indices of a tensor of len axes that have b on the axes axis1 < axis2
\* (counted from 0) and idx on the others, in order.
Widened(idx, len, axis1, axis2, b) ==
    [p \in 1..len |->
        IF p = axis1 + 1 \/ p = axis2 + 1 THEN b
        ELSE IF p < axis1 + 1 THEN idx[p]
        ELSE IF p < axis2 + 1 THEN idx[p - 1]
        ELSE idx[p - 2]]

\* np.trace(T, axis1=axis1, axis2=axis2) of a tensor of len axes: the two
\* axes are removed, the others keep their order.
TraceAxes(T, len, axis1, axis2) ==
    [idx \in Indices(len - 2) |->
        CAdd(T[Widened(idx, len, axis1, axis2, 0)],
             T[Widened(idx, len, axis1, axis2, 1)])]

\* ColumnAxisNext: the axis after the row axis for axis2.
ColumnAxisNext(qubit, current_num_qubits) == qubit + 1

\* axis2 = qubit + current_num_qubits
ColumnAxis(qubit, current_num_qubits) == qubit + current_num_qubits

\* trace_qubits = [i for i in range(total_qubits) if i not in keep_qubits]
TraceQubits(keep, n) ==
    {i \in 0..(n - 1) : \A j \in 1..Len(keep) : keep[j] # i}

\* "for qubit in sorted(trace_qubits, reverse=True)": the passes of the
\* loop that are left when the indices of todo are to be traced out.
RECURSIVE TraceOut(_, _, _)
TraceOut(T, todo, current_num_qubits) ==
    IF todo = {} THEN T
    ELSE LET qubit == CHOOSE q \in todo : \A o \in todo : o <= q
         IN  TraceOut(TraceAxes(T, 2 * current_num_qubits, qubit,
                                ColumnAxis(qubit, current_num_qubits)),
                      todo \ {qubit}, current_num_qubits - 1)

\* The indices along len axes of the entry at position f in row-major order.
Unflat(f, len) == [p \in 1..len |-> (f \div (2 ^ (len - p))) % 2]

\* rho_reshaped.reshape(keep_dim, keep_dim) of a tensor of len axes
AsMatrix(T, len, keep_dim) ==
    [r \in 0..(keep_dim - 1) |->
        [c \in 0..(keep_dim - 1) |-> T[Unflat(r * keep_dim + c, len)]]]

\* partial_trace(state_vector, keep_qubits, total_qubits)
PartialTrace(state, keep, n) ==
    LET rho == Outer(state, n)
        trace_qubits == TraceQubits(keep, n)
    IN  IF trace_qubits = {} THEN rho
        ELSE AsMatrix(TraceOut(Reshaped(rho, n), trace_qubits, n),
                      2 * (n - Cardinality(trace_qubits)), 2 ^ Len(keep))

\* np.linalg.eigvalsh(rho): as many eigenvalues as rho has rows; they are
\* not computed, their sum is the sum of the diagonal's real parts.
RECURSIVE DiagSum(_, _)
DiagSum(rho, d) == IF d = 0 THEN 0 ELSE DiagSum(rho, d - 1) + rho[d - 1][d - 1][1]

Eigvalsh(rho) ==
    [count |-> Cardinality(DOMAIN rho), sum |-> DiagSum(rho, Cardinality(DOMAIN rho))]

\* entanglement_spectrum(state_vector, total_qubits): one list a subsystem
EntanglementSpectrum(state, n) ==
    [qubit \in 1..n |-> Eigvalsh(PartialTrace(state, <<qubit - 1>>, n))]

\* A call of partial_trace.
PartialTraceCall ==
    /\ c_fn = "none"
    /\ \E n \in 0..MaxTraceQubits :
       \E state \in StateVectors(n), keep \in KeepLists(n) :
        /\ c_fn' = "partial_trace"
        /\ c_args' = [state |-> state, keep |-> keep, n |-> n]
        /\ c_ret' = PartialTrace(state, keep, n)
    /\ UNCHANGED <<metricVars, argVars, spsaVars, qngVars, hybridVars, pdeVars>>

\* A call of entanglement_spectrum.
SpectrumCall ==
    /\ c_fn = "none"
    /\ \E n \in 0..MaxTraceQubits :
       \E state \in StateVectors(n) :
        /\ c_fn' = "entanglement_spectrum"
        /\ c_args' = [state |-> state, keep |-> <<>>, n |-> n]
        /\ c_ret' = EntanglementSpectrum(state, n)
    /\ UNCHANGED <<metricVars, argVars, spsaVars, qngVars, hybridVars, pdeVars>>

\* The arrays of the optimizers in memory.  heap[ref] holds the contents of
\* the array that ref refers to; the caller's array is the first one.  Values
\* are in the units of the loss, finite-difference steps in units of delta.

\* The largest length of a parameter array, the largest number of SPSA
\* iterations and the largest number of QNG steps explored with arrays.
MaxArrayLen == 2

MaxArrayIter == 1

MaxArraySteps == 1

ArrayVals == {0, 1}

Arrays(n) == [1..n -> ArrayVals]

\* A new array: params - x, params + x, np.zeros_like(params).
Allocated(heap, values) ==
    [heap |-> Append(heap, values), ref |-> Len(heap) + 1]

\* CopyAliased: the copy is the array itself.
CopyAliased(heap, ref) == [heap |-> heap, ref |-> ref]

\* params.copy(): a new array with the contents of params.
Copy(heap, ref) == Allocated(heap, heap[ref])

\* params_plus[i] += delta: the array itself changes.
AddInPlace(heap, ref, i, d) == [heap EXCEPT ![ref][i] = @ + d]

\* for i in range(len(params)) of _estimate_gradient (lines 313-320).
RECURSIVE GradientLoop(_, _, _, _, _)
GradientLoop(heap, ref, gradient, values, i) ==
    IF i > Len(heap[ref]) THEN heap
    ELSE LET params_plus == Copy(heap, ref)
             h1 == AddInPlace(params_plus.heap, params_plus.ref, i, 1)
             params_minus == Copy(h1, ref)
             h2 == AddInPlace(params_minus.heap, params_minus.ref, i, 0 - 1)
             h3 == [h2 EXCEPT ![gradient][i] = values[i]]
         IN  GradientLoop(h3, ref, gradient, values, i + 1)

\* _estimate_gradient (lines 311-322); values are the quotients the loss
\* gives.
EstimateGradientArrays(heap, ref, values) ==
    LET gradient == Allocated(heap, [i \in 1..Len(heap[ref]) |-> 0])
    IN  [heap |-> GradientLoop(gradient.heap, ref, gradient.ref, values, 1),
         ref |-> gradient.ref]

\* for j in range(i, n) of compute_fisher_information (lines 169-181).
RECURSIVE FisherInner(_, _, _)
FisherInner(heap, ref, j) ==
    IF j > Len(heap[ref]) THEN heap
    ELSE LET params_plus_j == Copy(heap, ref)
         IN  FisherInner(AddInPlace(params_plus_j.heap, params_plus_j.ref, j, 1),
                         ref, j + 1)

\* for i in range(n) of compute_fisher_information (lines 160-181).
RECURSIVE FisherOuter(_, _, _)
FisherOuter(heap, ref, i) ==
    IF i > Len(heap[ref]) THEN heap
    ELSE LET params_plus == Copy(heap, ref)
             h1 == AddInPlace(params_plus.heap, params_plus.ref, i, 1)
         IN  FisherOuter(FisherInner(h1, ref, i), ref, i + 1)

\* compute_fisher_information (lines 154-182); F is a new array, its
\* elements are left out here.
FisherArrays(heap, ref) ==
    LET n == Len(heap[ref])
        F == Allocated(heap, [k \in 1..(n * n) |-> 0])
    IN  [heap |-> FisherOuter(F.heap, ref, 1), ref |-> F.ref]

\* optimize_step (lines 202-219); step is learning_rate * natural_gradient.
OptimizeStepArrays(heap, ref, step) ==
    LET F == FisherArrays(heap, ref)
    IN  Allocated(F.heap, [i \in 1..Len(heap[ref]) |-> F.heap[ref][i] - step[i]])

\* The loop of SPSAOptimizer.optimize (lines 82-107) from iteration k on;
\* iterations[k] holds the delta drawn, the two losses and whether the loss at
\* the new parameters is below best_loss.
RECURSIVE SPSALoop(_, _, _, _, _)
SPSALoop(heap, params, best_params, iterations, k) ==
    IF k > Len(iterations) THEN [heap |-> heap, ref |-> best_params]
    ELSE LET it == iterations[k]
             plus == Allocated(heap, Perturbed(heap[params], k - 1, it.delta, 1))
             minus == Allocated(plus.heap,
                                Perturbed(heap[params], k - 1, it.delta, 0 - 1))
             new == Allocated(minus.heap,
                              SPSAUpdate(minus.heap[params], k - 1, it.loss_plus,
                                         it.loss_minus, it.delta))
             best == IF it.improved THEN Copy(new.heap, new.ref)
                     ELSE [heap |-> new.heap, ref |-> best_params]
         IN  SPSALoop(best.heap, new.ref, best.ref, iterations, k + 1)

\* SPSAOptimizer.optimize (lines 75-114): params = initial_params.copy(),
\* self.best_params = params.copy(), the loop, return self.best_params.
SPSAArrays(heap, ref, iterations) ==
    LET params == Copy(heap, ref)
        best_params == Copy(params.heap, params.ref)
    IN  SPSALoop(best_params.heap, params.ref, best_params.ref, iterations, 1)

\* The QNG phase of HybridOptimizer.optimize (lines 282-287) from step k on;
\* steps[k] holds the gradient estimated and the step taken.
RECURSIVE QNGLoop(_, _, _, _)
QNGLoop(heap, params, steps, k) ==
    IF k > Len(steps) THEN [heap |-> heap, ref |-> params]
    ELSE LET gradient == EstimateGradientArrays(heap, params, steps[k].gradient)
             new == OptimizeStepArrays(gradient.heap, params, steps[k].step)
         IN  QNGLoop(new.heap, new.ref, steps, k + 1)

\* HybridOptimizer.optimize (lines 268-302): params is what self.spsa.optimize
\* returns, then what each optimize_step returns.
HybridArrays(heap, ref, iterations, steps) ==
    LET spsa_phase == SPSAArrays(heap, ref, iterations)
    IN  QNGLoop(spsa_phase.heap, spsa_phase.ref, steps, 1)

\* What the loss may give in one SPSA iteration on n parameters.
IterationInputs(n) ==
    [delta : Deltas(n), loss_plus : LossVals, loss_minus : LossVals,
     improved : BOOLEAN]

\* The same with a loss that is higher at params + ck * delta, as explored
\* in the calls of HybridOptimizer.optimize.
RisingInputs(n) ==
    {it \in IterationInputs(n) : it.loss_plus = 1 /\ it.loss_minus = 0}

\* What the loss may give in one QNG step on n parameters: the gradient
\* estimated, and the step taken along it.
StepInputs(n) == {[gradient |-> g, step |-> g] : g \in Arrays(n)}

\* The sequences over a set of a length up to len.
SeqsUpTo(S, len) == UNION {[1..m -> S] : m \in 0..len}

\* A call of SPSAOptimizer.optimize on the caller's array.
SPSAArraysCall ==
    /\ c_fn = "none"
    /\ \E n \in 0..MaxArrayLen :
       \E params \in Arrays(n),
          iterations \in SeqsUpTo(IterationInputs(n), MaxArrayIter) :
        /\ c_fn' = "SPSAOptimizer.optimize"
        /\ c_args' = [params |-> params, iterations |-> iterations,
                      steps |-> <<>>]
        /\ c_ret' = SPSAArrays(<<params>>, 1, iterations)
    /\ UNCHANGED <<metricVars, argVars, spsaVars, qngVars, hybridVars, pdeVars>>

\* A call of compute_fisher_information on the caller's array.
FisherArraysCall ==
    /\ c_fn = "none"
    /\ \E n \in 0..MaxArrayLen :
       \E params \in Arrays(n) :
        /\ c_fn' = "compute_fisher_information"
        /\ c_args' = [params |-> params, iterations |-> <<>>, steps |-> <<>>]
        /\ c_ret' = FisherArrays(<<params>>, 1)
    /\ UNCHANGED <<metricVars, argVars, spsaVars, qngVars, hybridVars, pdeVars>>

\* A call of optimize_step on the caller's array.
StepArraysCall ==
    /\ c_fn = "none"
    /\ \E n \in 0..MaxArrayLen :
       \E params \in Arrays(n), step \in StepInputs(n) :
        /\ c_fn' = "optimize_step"
        /\ c_args' = [params |-> params, iterations |-> <<>>,
                      steps |-> <<step>>]
        /\ c_ret' = OptimizeStepArrays(<<params>>, 1, step.step)
    /\ UNCHANGED <<metricVars, argVars, spsaVars, qngVars, hybridVars, pdeVars>>

\* A call of _estimate_gradient on the caller's array.
GradientArraysCall ==
    /\ c_fn = "none"
    /\ \E n \in 0..MaxArrayLen :
       \E params \in Arrays(n), step \in StepInputs(n) :
        /\ c_fn' = "_estimate_gradient"
        /\ c_args' = [params |-> params, iterations |-> <<>>,
                      steps |-> <<step>>]
        /\ c_ret' = EstimateGradientArrays(<<params>>, 1, step.gradient)
    /\ UNCHANGED <<metricVars, argVars, spsaVars, qngVars, hybridVars, pdeVars>>

\* A call of HybridOptimizer.optimize on the caller's array.
HybridArraysCall ==
    /\ c_fn = "none"
    /\ \E n \in 0..MaxArrayLen :
       \E params \in Arrays(n),
          iterations \in SeqsUpTo(RisingInputs(n), MaxArrayIter),
          steps \in SeqsUpTo(StepInputs(n), MaxArraySteps) :
        /\ c_fn' = "HybridOptimizer.optimize"
        /\ c_args' = [params |-> params, iterations |-> iterations,
                      steps |-> steps]
        /\ c_ret' = HybridArrays(<<params>>, 1, iterations, steps)
    /\ UNCHANGED <<metricVars, argVars, spsaVars, qngVars, hybridVars, pdeVars>>

\* No call has been made.
CallIdle ==
    /\ c_fn = "none"
    /\ c_args = <<>>
    /\ c_ret = <<>>

----------------------------------------------------------------------------
(* The specifications *)

\* compute_all_metrics on any state and any total_qubits up to MaxQubits.
InitMetrics ==
    /\ MetricsStart /\ ArgsIdle /\ SPSAIdle /\ QNGIdle /\ HybridIdle
    /\ PDEIdle /\ CallIdle

NextMetrics == MetricsPair \/ MetricsThreeTangle \/ MetricsSpectrum

SpecMetrics == InitMetrics /\ [][NextMetrics]_vars

\* One call of SPSAOptimizer.optimize on a fresh instance: any budget up to
\* MaxIter with an empty parameter vector, any budget up to MaxIterVec with
\* one or two parameters.
SPSAInputs ==
    {<<p, m>> \in {<<>>, <<0>>, <<0, 0>>} \X (0..MaxIter) :
        Len(p) = 0 \/ m <= MaxIterVec}

InitSPSA ==
    /\ MetricsIdle /\ QNGIdle /\ HybridIdle /\ PDEIdle /\ CallIdle
    /\ spsa = NewSPSA
    /\ s_pc = "call"
    /\ s_params = <<>>
    /\ s_k = 0
    /\ s_first_loss = 0
    /\ s_min_at = <<>>
    /\ s_ret = NoReturn
    /\ s_evals = <<>>
    /\ s_calls = 0
    /\ \E in \in SPSAInputs :
        /\ initial_params = in[1]
        /\ max_iterations = in[2]
    /\ tolerance \in Tolerances
    /\ loss_fn = NoisyLoss

NextSPSA == SPSABegin \/ SPSAIterate \/ SPSAReturn

SpecSPSA == InitSPSA /\ [][NextSPSA]_vars

\* The largest max_iterations explored with a noisy loss function in the
\* specifications below.
MaxEvalIter == 2

\* A fresh SPSAOptimizer at the entry of optimize, with these arguments.
SPSAStart(inputs, fns, tolerances) ==
    /\ MetricsIdle /\ QNGIdle /\ HybridIdle /\ PDEIdle /\ CallIdle
    /\ spsa = NewSPSA
    /\ s_pc = "call"
    /\ s_params = <<>>
    /\ s_k = 0
    /\ s_first_loss = 0
    /\ s_min_at = <<>>
    /\ s_ret = NoReturn
    /\ s_evals = <<>>
    /\ s_calls = 0
    /\ \E in \in inputs :
        /\ initial_params = in[1]
        /\ max_iterations = in[2]
    /\ tolerance \in tolerances
    /\ loss_fn \in fns

\* Calls of optimize, one after the other, on one SPSAOptimizer, with a
\* noisy loss function and a parameter vector of one component.
InitAgain ==
    SPSAStart({<<0>>} \X (0..MaxEvalIter), {NoisyLoss}, {DefaultTolerance})

NextAgain == SPSABegin \/ SPSAIterate \/ SPSAReturn \/ SPSAAgain

SpecAgain == InitAgain /\ [][NextAgain]_vars

\* One call of optimize: with a noisy loss function that records its calls,
\* up to two parameters and a budget up to MaxEvalIter; with a flat loss
\* function that records its calls, at most one parameter and a budget up to
\* MaxIter; or with a flat loss function that keeps no record, up to two
\* parameters and a budget up to MaxIter.
InitEvals ==
    \/ SPSAStart({<<>>, <<0>>, <<0, 1>>} \X (0..MaxEvalIter),
                 {fn \in LossFunctions : fn.kind = "noisy" /\ fn.recording},
                 Tolerances)
    \/ SPSAStart({<<>>, <<0>>} \X (0..MaxIter),
                 {fn \in LossFunctions : fn.kind = "flat" /\ fn.recording},
                 Tolerances)
    \/ SPSAStart({<<>>, <<0>>, <<0, 1>>} \X (0..MaxIter),
                 {fn \in LossFunctions : fn.kind = "flat" /\ ~fn.recording},
                 Tolerances)

SpecEvals == InitEvals /\ [][NextSPSA]_vars

\* Calls of optimize_step on a fresh QuantumNaturalGradient instance.
InitQNG ==
    /\ MetricsIdle /\ ArgsIdle /\ SPSAIdle /\ QNGIdle /\ HybridIdle
    /\ PDEIdle /\ CallIdle

NextQNG == QNGStep

SpecQNG == InitQNG /\ [][NextQNG]_vars

\* One call of optimize on a fresh HybridOptimizer with the default
\* switch_threshold, on a parameter vector of one component: the SPSA budgets
\* around the length the QNG phase asks for, any qng_iterations up to
\* MaxQngIter.
InitHybrid ==
    /\ MetricsIdle /\ SPSAIdle /\ QNGIdle /\ PDEIdle /\ CallIdle
    /\ initial_params = <<0>>
    /\ max_iterations = 0
    /\ tolerance = 0
    /\ loss_fn = NoisyLoss
    /\ hybrid \in [spsa_iterations  : {0, SwitchMinHistory, SwitchMinHistory + 1},
                   qng_iterations   : 0..MaxQngIter,
                   switch_threshold : {DefaultSwitchThreshold}]
    /\ h_pc = "call"
    /\ h_params = <<>>
    /\ h_loss = 0
    /\ h_loss_at = <<>>
    /\ h_spsa_history = <<>>
    /\ h_qng_history = <<>>
    /\ h_t = 0
    /\ h_ret = NoReport
    /\ h_calls = 0
    /\ h_total = 0

NextHybrid ==
    \/ HybridCall
    \/ SPSABegin
    \/ SPSAIterate
    \/ SPSAReturn
    \/ HybridDecide
    \/ HybridQNGStep
    \/ HybridReturn

SpecHybrid == InitHybrid /\ [][NextHybrid]_vars

\* One call of SPSAOptimizer.optimize that is not suspended for ever: the
\* loop has no blocking operation, and loss_fn returns.
SpecSPSAFair == SpecSPSA /\ WF_vars(NextSPSA)

\* The iteration counter of one QuantumNaturalGradient instance: direct
\* calls of optimize_step on a fresh instance, or calls of optimize, one
\* after the other, on a fresh HybridOptimizer, which owns the instance; the
\* parameter vector of these is empty and the SPSA budget the least that
\* lets the QNG phase run.
InitCounter ==
    \/ InitQNG
    \/ /\ MetricsIdle /\ SPSAIdle /\ QNGIdle /\ PDEIdle /\ CallIdle
       /\ initial_params = <<>>
       /\ max_iterations = 0
       /\ tolerance = 0
       /\ loss_fn = NoisyLoss
       /\ hybrid \in [spsa_iterations  : {SwitchMinHistory + 1},
                      qng_iterations   : 0..MaxQngIter,
                      switch_threshold : {DefaultSwitchThreshold}]
       /\ h_pc = "call"
       /\ h_params = <<>>
       /\ h_loss = 0
       /\ h_loss_at = <<>>
       /\ h_spsa_history = <<>>
       /\ h_qng_history = <<>>
       /\ h_t = 0
       /\ h_ret = NoReport
       /\ h_calls = 0
       /\ h_total = 0

NextCounter ==
    \/ QNGStep
    \/ HybridCall
    \/ SPSABegin
    \/ SPSAIterate
    \/ SPSAReturn
    \/ HybridDecide
    \/ HybridQNGStep
    \/ HybridReturn
    \/ HybridAgain

SpecCounter == InitCounter /\ [][NextCounter]_vars

\* Calls of time_dependent_evolution, with the same arguments, on one
\* PDEHamiltonian instance, and calls of adaptive_hamiltonian between them.
InitPDE ==
    /\ MetricsIdle /\ ArgsIdle /\ SPSAIdle /\ QNGIdle /\ HybridIdle /\ CallIdle
    /\ p_n \in 0..MaxPdeQubits
    /\ p_time = 0
    /\ p_pc = "call"
    /\ p_args \in [duration : 0..MaxDuration, dt : TimeSteps,
                   hamiltonian : Hamiltonians]
    /\ p_steps = 0
    /\ p_step = 0
    /\ p_q = 0
    /\ p_triple = NoEntry
    /\ p_gates = <<>>
    /\ p_marks = <<>>
    /\ p_history = <<>>
    /\ p_ret = <<>>
    /\ p_first = NoFirst
    /\ p_calls = 0
    /\ runs = <<>>

NextPDE ==
    \/ PDEBegin
    \/ PDEStep
    \/ PDEGates
    \/ PDEAppend
    \/ PDEReturn
    \/ PDEAgain
    \/ PDEBetween

SpecPDE == InitPDE /\ [][NextPDE]_vars

\* Two calls of time_dependent_evolution in progress at the same time on one
\* PDEHamiltonian instance, their steps interleaved in every order.  The
\* model functions explored repeat with period two and couple at t = 0.
Schedules ==
    {h \in Hamiltonians :
        /\ h[0].coupling > CouplingThreshold
        /\ \A t \in DOMAIN h : t >= 2 => h[t] = h[t - 2]}

RunArgs == [duration : 1..MaxDuration, dt : TimeSteps, hamiltonian : Schedules]

InitRuns ==
    /\ MetricsIdle /\ ArgsIdle /\ SPSAIdle /\ QNGIdle /\ HybridIdle /\ CallIdle
    /\ p_n \in 1..MaxPdeQubits
    /\ p_time = 0
    /\ p_pc = "idle"
    /\ p_args = [duration |-> 0, dt |-> 1, hamiltonian |-> <<>>]
    /\ p_steps = 0
    /\ p_step = 0
    /\ p_q = 0
    /\ p_triple = NoEntry
    /\ p_gates = <<>>
    /\ p_marks = <<>>
    /\ p_history = <<>>
    /\ p_ret = <<>>
    /\ p_first = NoFirst
    /\ p_calls = 0
    /\ \E a \in RunArgs, b \in RunArgs : runs = <<NoRun(a), NoRun(b)>>

NextRuns ==
    \/ RunBegin
    \/ RunStep
    \/ RunGates
    \/ RunAppend
    \/ RunReturn

SpecRuns == InitRuns /\ [][NextRuns]_vars

\* A call of a function that keeps no state, on arguments from the sets
\* above.
InitCall ==
    /\ MetricsIdle /\ ArgsIdle /\ SPSAIdle /\ QNGIdle /\ HybridIdle
    /\ PDEIdle /\ CallIdle

NextAdaptive == AdaptiveCall

SpecAdaptive == InitCall /\ [][NextAdaptive]_vars

NextFisher == FisherCall

SpecFisher == InitCall /\ [][NextFisher]_vars

NextTrace == PartialTraceCall \/ SpectrumCall

SpecTrace == InitCall /\ [][NextTrace]_vars

\* One call of an optimizer operation on an array of the caller.
NextArrays ==
    \/ SPSAArraysCall
    \/ FisherArraysCall
    \/ StepArraysCall
    \/ GradientArraysCall
    \/ HybridArraysCall

SpecArrays == InitCall /\ [][NextArrays]_vars

NextNegativity == NegativityCall

SpecNegativity == InitCall /\ [][NextNegativity]_vars

----------------------------------------------------------------------------
(* The properties *)

\* A metric function raised for the pair whose outcome is o.
FailedPair(o) == o.mi.st # "ok" \/ o.conc.st # "ok" \/ o.neg.st # "ok"

\* The keys of the pairs i < j of n qubits.
AllPairs(n) ==
    {PairKey(ij[1], ij[2]) :
        ij \in {x \in (0..(n - 1)) \X (0..(n - 1)) : x[1] < x[2]}}

PairwiseNames == {"mutual_information", "concurrence", "tangle", "negativity"}

\* C1: compute_all_metrics never aborts.  For a pair for which one of the
\* metric functions raised, the four entries are 0, the one computed before
\* the failure included; for every other pair the entries are what the
\* functions returned (the tangle being the square of the concurrence),
\* whatever happened to the pairs around it; and as long as the call has not
\* returned it has a next step.
C1_PairFailSoft ==
    /\ \A pair \in DOMAIN m_oracle :
        LET o == m_oracle[pair] IN
        IF FailedPair(o)
        THEN \A name \in PairwiseNames : metrics[name][pair] = 0
        ELSE /\ metrics.mutual_information[pair] = o.mi.v
             /\ metrics.concurrence[pair] = o.conc.v
             /\ metrics.tangle[pair] = o.conc.v * o.conc.v
             /\ metrics.negativity[pair] = o.neg.v
    /\ m_pc \in {"pairs", "spectrum"} => ENABLED NextMetrics

\* The call returned; concurrence raised for one pair after its mutual
\* information had been computed, and another pair kept its values.
C1_Witness ==
    /\ m_pc = "done"
    /\ \E p \in DOMAIN m_oracle, q \in DOMAIN m_oracle :
        /\ m_oracle[p].mi.st = "ok"
        /\ m_oracle[p].mi.v # 0
        /\ m_oracle[p].conc.st = "raise"
        /\ ~FailedPair(m_oracle[q])
        /\ metrics.mutual_information[q] # 0

\* C2: the four pairwise mappings have the same keys at every moment, and
\* once the pairwise loop is over the keys of each are the n(n-1)/2 keys of
\* the pairs i < j of the n qubits, failures or not.
C2_PairCount ==
    /\ \A name \in PairwiseNames :
        DOMAIN metrics[name] = DOMAIN metrics.mutual_information
    /\ m_pc \in {"spectrum", "done"} =>
        \A name \in PairwiseNames :
            /\ DOMAIN metrics[name] = AllPairs(total_qubits)
            /\ Cardinality(DOMAIN metrics[name]) =
                   (total_qubits * (total_qubits - 1)) \div 2

\* The call returned for three qubits, with a pair that failed.
C2_Witness ==
    /\ m_pc = "done"
    /\ total_qubits = 3
    /\ Cardinality(DOMAIN metrics.tangle) = 3
    /\ \E p \in DOMAIN m_oracle : FailedPair(m_oracle[p])

\* The history holds one entry for each iteration executed.
C3_Counted ==
    /\ s_pc = "loop" => Len(spsa.loss_history) = s_k /\ s_k <= max_iterations
    /\ s_pc = "break" => Len(spsa.loss_history) = s_k + 1 /\ s_k < max_iterations
    /\ s_pc = "done" => /\ s_ret.history = spsa.loss_history
                        /\ Len(s_ret.history) <= max_iterations

\* An iteration appends its loss at the end of the history, and a return
\* from the loop without a break returns max_iterations entries.
C3_Appended ==
    /\ (s_pc = "loop" /\ s_pc' # "done") =>
           \E l \in LossVals : spsa'.loss_history = Append(spsa.loss_history, l)
    /\ (s_pc = "loop" /\ s_pc' = "done") => Len(s_ret'.history) = max_iterations

\* C3: SPSAOptimizer.optimize terminates, whatever loss_fn returns, for
\* every max_iterations >= 0; the history it returns holds one entry for
\* each iteration executed, appended in order, at most max_iterations of
\* them, and max_iterations of them if the loop ended without a break.
C3_Terminates ==
    /\ []C3_Counted
    /\ [][C3_Appended]_vars
    /\ <>(s_pc = "done")

\* The call returned with the budget used up and no break, after losses that
\* are not all the same.
C3_Witness ==
    /\ s_pc = "done"
    /\ max_iterations = ConvLag + 2
    /\ tolerance = 0
    /\ Len(s_ret.history) = max_iterations
    /\ s_ret.history[1] # s_ret.history[2]

\* best_loss and best_params after the entry of optimize.
C4_Best ==
    s_pc \in {"loop", "break", "done"} =>
        /\ spsa.best_loss = LeastLoss(s_first_loss, spsa.loss_history)
        /\ spsa.best_params = s_min_at
        /\ s_pc = "done" => /\ s_ret.loss = spsa.best_loss
                            /\ s_ret.params = spsa.best_params

C4_NotIncreasing ==
    s_pc \in {"loop", "break"} => spsa'.best_loss <= spsa.best_loss

\* C4: after every iteration and on return, best_loss is the least of the
\* loss at the initial parameters and the history, best_params is the vector
\* at which that least loss was first observed, and best_loss never
\* increases during the call.
C4_BestTracked == []C4_Best /\ [][C4_NotIncreasing]_vars

\* An iteration improved on the initial loss, and a later one gave the same
\* loss at another vector.
C4_Witness ==
    /\ s_pc = "loop"
    /\ s_k >= 2
    /\ spsa.best_loss < s_first_loss
    /\ spsa.best_params # initial_params
    /\ spsa.best_params # s_params
    /\ FromEnd(spsa.loss_history, 1) = spsa.best_loss

\* history[k] and history[k - d], where k counts from 0 and a sequence
\* from 1.
StopsAt(history, k, tol, d) ==
    /\ k > 10
    /\ Abs(history[k + 1] - history[k + 1 - d]) < tol

\* The loop breaks after iteration k exactly if k > 10 and
\* |history[k] - history[k - d]| < tolerance, and else goes on to
\* k = max_iterations - 1.
StopsExactlyAt(d) ==
    /\ s_pc = "break" => StopsAt(spsa.loss_history, s_k, tolerance, d)
    /\ (s_pc = "loop" /\ s_k > 0) =>
           ~StopsAt(spsa.loss_history, s_k - 1, tolerance, d)
    /\ s_pc = "done" =>
           \/ Len(s_ret.history) = max_iterations
           \/ StopsAt(s_ret.history, Len(s_ret.history) - 1, tolerance, d)

\* C5, as stated: the loop breaks after iteration k exactly if k > 10 and
\* |history[k] - history[k - 10]| < tolerance.
C5_StopsOnLag10 == StopsExactlyAt(10)

\* C5, as the code has it: the loop breaks after iteration k exactly if
\* k > 10 and |history[k] - history[k - 9]| < tolerance (loss_history[-10]
\* is the tenth entry from the end, the last one being the first), and else
\* goes on to k = max_iterations - 1.
C5_StopsOnLag9 == StopsExactlyAt(9)

\* The loop broke before the budget was used up, on a loss that differs from
\* the one ten iterations before it.
C5_Witness ==
    /\ s_pc = "break"
    /\ s_k + 1 < max_iterations
    /\ tolerance = 1
    /\ spsa.loss_history[s_k + 1] # spsa.loss_history[s_k + 1 - 10]

\* The QNG phase is to run after an SPSA phase with this history.
PhaseTwoDue(sh) ==
    /\ Len(sh) > 10
    /\ sh[1] - sh[Len(sh)] > hybrid.switch_threshold

\* C6: HybridOptimizer.optimize runs SPSA first, with the budget
\* spsa_iterations, and no QNG step before SPSA returned; the QNG phase runs
\* exactly if the SPSA history has more than 10 entries and its first entry
\* exceeds its last by more than switch_threshold; it then makes
\* qng_iterations steps, and else qng_history is empty, as it is whenever
\* spsa_iterations <= 10.
C6_Phases ==
    /\ h_pc = "spsa" => max_iterations = hybrid.spsa_iterations
    /\ h_pc \in {"call", "spsa"} => qng_iteration = 0
    /\ h_pc \in {"qng", "report", "done"} =>
        /\ h_spsa_history = spsa.loss_history
        /\ Len(h_spsa_history) <= hybrid.spsa_iterations
    /\ h_pc = "qng" => PhaseTwoDue(h_spsa_history)
    /\ h_pc = "report" => ~PhaseTwoDue(h_spsa_history)
    /\ h_pc = "done" =>
        /\ IF PhaseTwoDue(h_ret.info.spsa_history)
           THEN /\ Len(h_ret.info.qng_history) = hybrid.qng_iterations
                /\ qng_iteration = hybrid.qng_iterations
           ELSE /\ h_ret.info.qng_history = <<>>
                /\ qng_iteration = 0
        /\ hybrid.spsa_iterations <= 10 => h_ret.info.qng_history = <<>>

\* The call returned after a QNG phase of at least one step.
C6_Witness ==
    /\ h_pc = "done"
    /\ PhaseTwoDue(h_ret.info.spsa_history)
    /\ hybrid.qng_iterations >= 1
    /\ Len(h_ret.info.qng_history) = hybrid.qng_iterations

Entries(seq) == {seq[i] : i \in 1..Len(seq)}

\* C7: the loss HybridOptimizer.optimize returns is the least of the loss
\* at initial_params, the entries of the SPSA history and the entries of the
\* QNG history, hence not greater than the loss at initial_params.
C7_LeastLoss ==
    h_pc = "done" =>
        /\ h_ret.loss = SetMin({s_first_loss}
                                \cup Entries(h_ret.info.spsa_history)
                                \cup Entries(h_ret.info.qng_history))
        /\ h_ret.loss <= s_first_loss

\* The call returned after a QNG phase that improved on the SPSA phase.
C7_Witness ==
    /\ h_pc = "done"
    /\ h_ret.info.qng_history # <<>>
    /\ h_ret.loss < LeastLoss(s_first_loss, h_ret.info.spsa_history)

\* C8: the vector HybridOptimizer.optimize returns is the one at which the
\* loss it returns was observed, also when a QNG step made the loss worse.
C8_ReturnsBestPoint == h_pc = "done" => h_ret.params = h_loss_at

\* The call returned the vector a QNG step moved to, where the loss was
\* worse than the loss returned; the SPSA phase, which moves by one unit an
\* iteration at most, has not been at that vector.
C8_WorseStepReturned ==
    /\ h_pc = "done"
    /\ h_ret.info.qng_history # <<>>
    /\ FromEnd(h_ret.info.qng_history, 1) > h_ret.loss
    /\ Abs(h_ret.params[1] - initial_params[1]) > hybrid.spsa_iterations
    /\ h_ret.params # h_loss_at

\* C9: the report holds spsa_history and qng_history, and total_iterations
\* is the sum of their lengths, at most spsa_iterations + qng_iterations.
C9_Report ==
    h_pc = "done" =>
        /\ {"spsa_history", "qng_history", "total_iterations"} \subseteq DOMAIN h_ret.info
        /\ h_ret.info.spsa_history = h_spsa_history
        /\ h_ret.info.qng_history = h_qng_history
        /\ h_ret.info.total_iterations =
               Len(h_ret.info.spsa_history) + Len(h_ret.info.qng_history)
        /\ h_ret.info.total_iterations <=
               hybrid.spsa_iterations + hybrid.qng_iterations

\* The call returned a report of both phases.
C9_Witness ==
    /\ h_pc = "done"
    /\ h_ret.info.qng_history # <<>>
    /\ h_ret.info.total_iterations = hybrid.spsa_iterations + hybrid.qng_iterations

\* C10: optimize_step does not raise when F + epsilon I cannot be inverted:
\* it returns params - learning_rate * gradient; and when the matrix can be
\* inverted it returns params - learning_rate * x, where x is the vector
\* with (F + epsilon I) x = gradient.
C10_StepFallsBack ==
    q_ret.st # "none" =>
        /\ q_ret.st = "ok"
        /\ LET F_reg == MatAdd(q_args.F, Eye(Len(q_args.params)))
               moved == VecSub(q_args.params, q_ret.v)
           IN  IF Det(F_reg) = 0
               THEN moved = q_args.gradient
               ELSE MatVec(F_reg, moved) =
                        [i \in 1..Len(moved) |-> InvEpsilon * q_args.gradient[i]]

\* A call with a matrix that cannot be inverted returned, after a call with
\* one that can.
C10_Witness ==
    /\ q_ret.st = "ok"
    /\ qng_iteration = 2
    /\ Len(q_args.params) = 2
    /\ Det(MatAdd(q_args.F, Eye(2))) = 0
    /\ q_args.gradient # <<0, 0>>
    /\ q_ret.v = VecSub(q_args.params, q_args.gradient)

\* The counter is the number of calls of optimize_step that returned, and
\* between and after calls of optimize the number of QNG steps of all of
\* them.
C11_Counted ==
    /\ qng_iteration = q_returned
    /\ h_pc \in {"call", "spsa", "done"} => qng_iteration = h_total

\* A step leaves the counter alone or adds 1 to it, and adds 1 exactly when
\* a call of optimize_step returns.
C11_OneUp ==
    \/ qng_iteration' = qng_iteration /\ q_returned' = q_returned
    \/ qng_iteration' = qng_iteration + 1 /\ q_returned' = q_returned + 1

\* C11: the iteration counter of a QuantumNaturalGradient instance starts at
\* 0 and grows by exactly 1 with every call of optimize_step that returns,
\* fallback or not; nothing lowers or resets it, so that over the calls of
\* optimize made on one HybridOptimizer it is the number of QNG steps of all
\* of them.
C11_CounterCounts == []C11_Counted /\ [][C11_OneUp]_vars

\* The second call of optimize on one instance returned, each call having
\* made a QNG step.
C11_Witness ==
    /\ h_pc = "done"
    /\ h_calls = 2
    /\ Len(h_ret.info.qng_history) = 1
    /\ qng_iteration = 2

\* C12: compute_fisher_information returns an n x n matrix F with
\* F[i][j] = F[j][i] for all i and j, whatever state_fn gives.
C12_FisherSymmetric ==
    c_fn = "compute_fisher_information" =>
        /\ Len(c_ret) = c_args.n
        /\ \A i \in 1..c_args.n :
            /\ Len(c_ret[i]) = c_args.n
            /\ \A j \in 1..c_args.n : c_ret[i][j] = c_ret[j][i]
        /\ \A ij \in UpperPairs(c_args.n) : c_ret[ij[1]][ij[2]] = c_args.element[ij]

\* A call for three parameters returned a matrix with distinct entries off
\* the diagonal.
C12_Witness ==
    /\ c_fn = "compute_fisher_information"
    /\ c_args.n = 3
    /\ c_ret[3][1] = 1
    /\ c_ret[3][2] = 0 - 1
    /\ c_ret[2][1] = 0

\* C13: time_dependent_evolution returns floor(duration / dt) entries, one a
\* step in step order; entry s has t = s * dt, below duration; and an entry
\* is appended after all the gate calls of its step.
C13_StepsRecorded ==
    /\ p_pc \in {"step", "gates"} => Len(p_history) = p_step
    /\ p_pc \in {"step", "gates", "done"} =>
        /\ Len(p_marks) = Len(p_history)
        /\ \A s \in 1..Len(p_history) :
            /\ p_history[s].t = (s - 1) * p_args.dt
            /\ p_history[s].t < p_args.duration
            /\ \A i \in 1..Len(p_gates) :
                   p_gates[i].step = s - 1 => i <= p_marks[s]
    /\ p_pc = "done" =>
        /\ p_ret = p_history
        /\ Len(p_ret) * p_args.dt <= p_args.duration
        /\ (Len(p_ret) + 1) * p_args.dt > p_args.duration

\* A call on two subsystems returned for a duration of one dt and a half:
\* one entry, after its gate calls.
C13_Witness ==
    /\ p_pc = "done"
    /\ p_n = 2
    /\ Len(p_ret) = 1
    /\ p_args.duration = 3
    /\ p_args.dt = 2
    /\ p_gates # <<>>

\* The gate calls of the record are in the order of the loops.
InLoopOrder(g, h) ==
    \/ g.step < h.step
    \/ g.step = h.step /\ g.q < h.q
    \/ /\ g.step = h.step /\ g.q = h.q
       /\ <<g.kind, h.kind>> \in {<<"RZ", "RX">>, <<"RX", "RY">>}

\* C14: in every step the gate calls are made subsystem by subsystem, q from
\* 0 to n-1: RZ with angle longitudinal * dt first and RX with angle
\* transverse * dt directly after it, the calls for q before those for q+1,
\* the calls of a step before those of the next; every call has a kind among
\* RZ, RX, RY and a subsystem in [0, n).
C14_GateOrder ==
    /\ \A i \in 1..Len(p_gates) :
        LET g == p_gates[i]
            e == p_args.hamiltonian[g.step * p_args.dt]
        IN  /\ g.kind \in {"RZ", "RX", "RY"}
            /\ g.q \in 0..(p_n - 1)
            /\ i < Len(p_gates) => InLoopOrder(g, p_gates[i + 1])
            /\ g.kind = "RZ" =>
                /\ g.angle = e.long * p_args.dt
                /\ i < Len(p_gates)
                /\ p_gates[i + 1].kind = "RX"
                /\ p_gates[i + 1].q = g.q
                /\ p_gates[i + 1].step = g.step
                /\ p_gates[i + 1].angle = e.trans * p_args.dt
            /\ g.kind = "RX" => i > 1 /\ p_gates[i - 1].kind = "RZ"
    /\ \A s \in 1..Len(p_history) : \A q \in 0..(p_n - 1) :
        \E i \in 1..Len(p_gates) :
            p_gates[i].step = s - 1 /\ p_gates[i].q = q /\ p_gates[i].kind = "RZ"

\* A call of two steps on two subsystems returned, with an RY call.
C14_Witness ==
    /\ p_pc = "done"
    /\ p_n = 2
    /\ Len(p_ret) >= 2
    /\ \E i \in 1..Len(p_gates) : p_gates[i].kind = "RY"
    /\ \E i \in 1..Len(p_gates) : p_gates[i].step = 1 /\ p_gates[i].q = 1

\* The number of gate calls step s made.
CallsOfStep(s) == Cardinality({i \in 1..Len(p_gates) : p_gates[i].step = s})

\* RY is called for subsystem q in a step exactly if the coupling of the
\* step is above 0.1 and q < n-1, and directly after the RX call for q.
RYWhenCoupled ==
    /\ \A i \in 1..Len(p_gates) :
        LET g == p_gates[i]
            e == p_args.hamiltonian[g.step * p_args.dt]
        IN  /\ g.kind = "RX" =>
                ((/\ i < Len(p_gates)
                  /\ p_gates[i + 1].kind = "RY"
                  /\ p_gates[i + 1].q = g.q
                  /\ p_gates[i + 1].step = g.step)
                 <=> (e.coupling > 1 /\ g.q < p_n - 1))
            /\ g.kind = "RY" =>
                /\ i > 1
                /\ p_gates[i - 1].kind = "RX"
                /\ p_gates[i - 1].q = g.q
                /\ p_gates[i - 1].step = g.step
                /\ g.q # p_n - 1
                /\ e.coupling > 1

C16_Deterministic ==
    (p_pc = "done" /\ p_calls >= 2) =>
        /\ p_ret = p_first.history
        /\ p_gates = p_first.gates

\* The second call returned, after a call of adaptive_hamiltonian in
\* between, with entries and gate calls.
C16_Witness ==
    /\ p_pc = "done"
    /\ p_calls = 2
    /\ c_fn = "adaptive_hamiltonian"
    /\ Len(p_ret) >= 2
    /\ p_gates # <<>>

\* C17: adaptive_hamiltonian calls one model function, chosen by the label as
\* it is spelled: heat for anxious, stressed, overwhelmed; wave for excited,
\* joyful, energetic; reaction_diffusion for lonely, disconnected;
\* schrodinger for every other label, those that differ from a listed one in
\* letter case among them; with needs None or empty the arguments are those
\* of comfort = stimulation = connection = 50.
C17_Selects ==
    c_fn = "adaptive_hamiltonian" =>
        LET label == c_args.emotional_state
            model == c_ret.model
            absent == c_args.needs.kind = "None" \/ DOMAIN c_args.needs.d = {}
        IN  /\ model \in {"heat", "wave", "reaction_diffusion", "schrodinger"}
            /\ model = "heat" <=> label \in {"anxious", "stressed", "overwhelmed"}
            /\ model = "wave" <=> label \in {"excited", "joyful", "energetic"}
            /\ model = "reaction_diffusion" <=> label \in {"lonely", "disconnected"}
            /\ c_ret.t = c_args.t
            /\ absent =>
                /\ model = "heat" => c_ret.args = [diffusion_rate |-> 150]
                /\ model = "wave" =>
                       c_ret.args = [frequency |-> 150, amplitude |-> 150]
                /\ model = "reaction_diffusion" => c_ret.args = [stimulus |-> 50]
                /\ model = "schrodinger" => c_ret.args = [coherence_time |-> 150]

\* A call with the label "Anxious" and an empty dict of needs chose
\* schrodinger with the coherence time of comfort = 50.
C17_Witness ==
    /\ c_fn = "adaptive_hamiltonian"
    /\ c_args.emotional_state = "Anxious"
    /\ c_args.needs = NeedsDict(EmptyDict)
    /\ c_ret.model = "schrodinger"
    /\ c_ret.args.coherence_time = 150

\* C18: no metric entry point returns normally when it is called with n < 1
\* (or with a subsystem index outside [0, n)): compute_all_metrics does not
\* return for a state of no subsystems.
C18_RejectsNoSubsystems == m_pc = "done" => total_qubits >= 1

\* compute_all_metrics returned, for n = 0, the dict it started from.
C18_ReturnedForNoSubsystems ==
    /\ m_pc = "done"
    /\ total_qubits = 0
    /\ metrics = InitialMetrics

\* C19: tangle is concurrence squared, and in the dict of compute_all_metrics
\* the tangle entry of every pair is the square of the pair's concurrence
\* entry, also for a pair whose entries the except branch set to 0.
C19_TangleSquared ==
    /\ DOMAIN metrics.tangle = DOMAIN metrics.concurrence
    /\ \A pair \in DOMAIN metrics.tangle :
        metrics.tangle[pair] = metrics.concurrence[pair] * metrics.concurrence[pair]
    /\ \A pair \in DOMAIN m_oracle :
        LET o == m_oracle[pair] IN
        (o.conc # NotCalled /\ o.conc.st = "ok" /\ o.neg.st = "ok") =>
            metrics.tangle[pair] = o.conc.v * o.conc.v

\* A state of three subsystems: the pair 0-1 has concurrence 1 and tangle 1,
\* the pair 0-2 failed in negativity and has 0 for both.
C19_Witness ==
    /\ m_pc = "done"
    /\ total_qubits = 3
    /\ metrics.concurrence["0-1"] = 2
    /\ metrics.tangle["0-1"] = 4
    /\ m_oracle["0-2"].conc = Ok(2)
    /\ m_oracle["0-2"].neg = Raised
    /\ metrics.tangle["0-2"] = 0

\* C20: negativity returns no negative value: a value of
\* (trace norm - 1) / 2 below 0 is clamped to 0.
C20_NeverNegative == c_fn = "negativity" => c_ret >= 0

\* negativity returned a negative value: the eigenvalues 0, 0, 0 and one
\* just below 1.
C20_ReturnedNegative ==
    /\ c_fn = "negativity"
    /\ c_args = <<0, 0, 0, One - 1>>
    /\ c_ret < 0

\* C25, as stated: three_tangle is 0 for n < 3 and otherwise
\* max(0, 1 - tangle(0,1) - tangle(0,2)), a value in [0, 1] that the pairs
\* (0,1) and (0,2) alone determine: where concurrence returns for these two
\* pairs, the three_tangle entry of compute_all_metrics is that value,
\* whatever the computation for the pair (1,2) does.
C25_TwoPairsDecide ==
    m_pc \in {"spectrum", "done"} =>
        /\ metrics.three_tangle \in 0..FullTangle
        /\ total_qubits < 3 => metrics.three_tangle = 0
        /\ (total_qubits >= 3 /\ m_three[1].st = "ok" /\ m_three[2].st = "ok") =>
            metrics.three_tangle =
                Max(0, FullTangle - m_three[1].v * m_three[1].v
                                  - m_three[2].v * m_three[2].v)

\* concurrence returned 0 for the pairs (0,1) and (0,2) and raised for the
\* pair (1,2): the three_tangle entry is 0, where the two pairs give 1.
C25_ThirdPairPrevents ==
    /\ m_pc = "done"
    /\ total_qubits = 3
    /\ m_three = <<Ok(0), Ok(0), Raised>>
    /\ metrics.three_tangle = 0

\* C27, as stated: every call of HybridOptimizer.optimize runs its SPSA phase
\* on a freshly constructed SPSAOptimizer: when self.spsa.optimize is
\* entered, the instance has the fields __init__ gave it.
C27_FreshSPSA == (h_pc = "spsa" /\ s_pc = "call") => spsa = NewSPSA

\* The second call of optimize entered self.spsa.optimize on the instance
\* that holds the history and the best point of the first call.
C27_ServedBefore ==
    /\ h_calls = 2
    /\ h_pc = "spsa"
    /\ s_pc = "call"
    /\ Len(spsa.loss_history) > SwitchMinHistory
    /\ spsa.best_loss < Infinity

\* C30: the QNG phase of HybridOptimizer.optimize starts from the best
\* parameters and the best loss of the SPSA phase; without a QNG step the
\* call returns SPSA's best parameters and best loss.
C30_StartsFromBest ==
    /\ (h_pc = "qng" /\ h_t = 0) =>
        /\ h_params = spsa.best_params
        /\ h_loss = spsa.best_loss
    /\ (h_pc = "done" /\ h_ret.info.qng_history = <<>>) =>
        /\ h_ret.params = spsa.best_params
        /\ h_ret.loss = spsa.best_loss
        /\ h_ret.info.spsa_history = spsa.loss_history

\* The QNG phase is about to make its first step from SPSA's best point,
\* which is not the initial point and was reached before the last iteration.
C30_Witness ==
    /\ h_pc = "qng"
    /\ h_t = 0
    /\ hybrid.qng_iterations > 0
    /\ h_params = spsa.best_params
    /\ h_params # initial_params
    /\ \E i \in 1..(Len(spsa.loss_history) - 1) : spsa.loss_history[i] = spsa.best_loss

\* C22, as stated: a second call of SPSAOptimizer.optimize on an instance
\* continues from what the first call left: in the loop of a later call the
\* history begins with the history the call before returned, and the best
\* loss is at most the best loss it returned.
C22_ContinuesFromFirst ==
    (s_calls >= 1 /\ s_pc \in {"loop", "break"}) =>
        /\ Len(spsa.loss_history) >= Len(s_ret.history)
        /\ SubSeq(spsa.loss_history, 1, Len(s_ret.history)) = s_ret.history
        /\ spsa.best_loss <= s_ret.loss

\* The second call is at the head of its loop: the history of the first call
\* is gone and the best loss is above the best loss the first call returned.
C22_SecondCallForgot ==
    /\ s_calls = 1
    /\ s_pc = "loop"
    /\ s_k = 0
    /\ Len(s_ret.history) = MaxEvalIter
    /\ spsa.loss_history = <<>>
    /\ spsa.best_loss > s_ret.loss

\* The record of calls of iteration j (from 1): the call at the parameters
\* the iteration starts from, and its three calls.
EvalsOf(j) == SubSeq(s_evals, 3 * j - 2, 3 * j + 1)

\* The three calls of an iteration are at params + ck * delta and
\* params - ck * delta, for one delta of components 1 and -1, and at the
\* parameters the update gives from the two losses of these calls.
ThreeCalls(j, e) ==
    \E delta \in [1..Len(initial_params) -> {0 - 1, 1}] :
        /\ e[2].at = [i \in 1..Len(delta) |-> e[1].at[i] + PerturbationSize(j - 1) * delta[i]]
        /\ e[3].at = [i \in 1..Len(delta) |-> e[1].at[i] - PerturbationSize(j - 1) * delta[i]]
        /\ e[4].at = [i \in 1..Len(delta) |->
                        e[1].at[i] - (StepSize(j - 1) * (e[2].v - e[3].v) * delta[i])
                                         \div (2 * PerturbationSize(j - 1))]

\* C26: an iteration of SPSAOptimizer.optimize calls loss_fn three times, at
\* params + ck * delta, at params - ck * delta and at the updated params,
\* whose loss is the one appended to the history; delta has components 1 and
\* -1 only; a run of m iterations makes 1 + 3m calls.
C26_ThreeEvaluations ==
    (loss_fn.recording /\ s_pc \in {"loop", "break", "done"}) =>
        /\ Len(s_evals) = 1 + 3 * Len(spsa.loss_history)
        /\ s_evals[1].at = initial_params
        /\ s_evals[1].v = s_first_loss
        /\ \A j \in 1..Len(spsa.loss_history) :
            /\ ThreeCalls(j, EvalsOf(j))
            /\ EvalsOf(j)[4].v = spsa.loss_history[j]
        /\ s_pc = "done" => Len(s_evals) = 1 + 3 * Len(s_ret.history)

\* A call on two parameters returned after two iterations, of which the
\* first moved the parameters: seven calls of loss_fn.
C26_Witness ==
    /\ s_pc = "done"
    /\ loss_fn.kind = "noisy"
    /\ Len(initial_params) = 2
    /\ Len(s_ret.history) = 2
    /\ Len(s_evals) = 7
    /\ s_evals[2].v # s_evals[3].v
    /\ s_evals[4].at # initial_params

\* C28: with a loss function that returns the same value everywhere and a
\* tolerance above 0, the parameters of SPSAOptimizer.optimize never move;
\* it returns the initial parameters, the constant and a history of
\* min(max_iterations, 12) entries, all the constant.
C28_FlatLoss ==
    (loss_fn.kind = "flat" /\ tolerance > 0) =>
        /\ s_pc \in {"loop", "break"} => s_params = initial_params
        /\ s_pc \in {"loop", "break", "done"} => spsa.best_params = initial_params
        /\ s_pc = "done" =>
            /\ s_ret.params = initial_params
            /\ s_ret.loss = loss_fn.c
            /\ Len(s_ret.history) =
                   (IF max_iterations < 12 THEN max_iterations ELSE 12)
            /\ max_iterations >= 1 => s_ret.history # <<>>
            /\ \A i \in 1..Len(s_ret.history) : s_ret.history[i] = loss_fn.c

\* A call with the constant loss 1, two parameters and a budget of 13
\* returned after 12 iterations.
C28_Witness ==
    /\ s_pc = "done"
    /\ loss_fn.kind = "flat"
    /\ ~loss_fn.recording
    /\ loss_fn.c = 1
    /\ tolerance = DefaultTolerance
    /\ max_iterations = MaxIter
    /\ Len(initial_params) = 2
    /\ Len(s_ret.history) = 12
    /\ s_ret.params = initial_params

\* The squared norm of a state vector.
RECURSIVE Norm2(_, _)
Norm2(state, d) ==
    IF d = 0 THEN 0
    ELSE Norm2(state, d - 1) + state[d - 1][1] * state[d - 1][1]
                             + state[d - 1][2] * state[d - 1][2]

\* C21: the reduced density matrix of one subsystem has the squared norm of
\* the state as its trace, so that the eigenvalues entanglement_spectrum
\* lists for a subsystem of a normalized state sum to 1; and
\* entanglement_spectrum returns n lists of 2 eigenvalues.
C21_SpectrumSums ==
    /\ c_fn = "entanglement_spectrum" =>
        /\ DOMAIN c_ret = 1..c_args.n
        /\ \A q \in 1..c_args.n :
            /\ c_ret[q].count = 2
            /\ c_ret[q].sum = Norm2(c_args.state, 2 ^ c_args.n)
    /\ (c_fn = "partial_trace" /\ Len(c_args.keep) = 1) =>
        /\ DOMAIN c_ret = 0..1
        /\ CAdd(c_ret[0][0], c_ret[1][1]) = <<Norm2(c_args.state, 2 ^ c_args.n), 0>>

\* The spectrum of a state of two subsystems with a real and an imaginary
\* amplitude, (|00> + i|11>) / sqrt(2): two lists that sum to the norm.
C21_Witness ==
    /\ c_fn = "entanglement_spectrum"
    /\ c_args.n = 2
    /\ c_args.state = [r \in 0..3 |-> IF r = 0 THEN <<1, 0>>
                                     ELSE IF r = 3 THEN <<0, 1>> ELSE <<0, 0>>]
    /\ c_ret = <<[count |-> 2, sum |-> 2], [count |-> 2, sum |-> 2]>>

\* The kept subsystems in ascending order.
RECURSIVE Ascending(_)
Ascending(S) ==
    IF S = {} THEN <<>>
    ELSE LET least == CHOOSE q \in S : \A o \in S : q <= o
         IN  <<least>> \o Ascending(S \ {least})

\* The basis index whose bits on the kept subsystems are those of r, the
\* first kept subsystem the most significant, and whose bits on the others
\* are given by t; subsystem 0 is the most significant bit.
BasisIndex(r, t, kept, n) ==
    LET bit(k) ==
            IF k \in DOMAIN t THEN t[k]
            ELSE LET j == CHOOSE j \in 1..Len(kept) : kept[j] = k
                 IN  (r \div (2 ^ (Len(kept) - j))) % 2
        RECURSIVE upto(_)
        upto(k) == IF k = 0 THEN 0 ELSE 2 * upto(k - 1) + bit(k - 1)
    IN  upto(n)

RECURSIVE CSum(_, _)
CSum(f, S) ==
    IF S = {} THEN <<0, 0>>
    ELSE LET x == CHOOSE x \in S : TRUE IN CAdd(f[x], CSum(f, S \ {x}))

\* The reference partial trace: entry (r, c).
Reference(state, keep, n, r, c) ==
    LET keptSet == {keep[j] : j \in 1..Len(keep)}
        kept == Ascending(keptSet)
        assignments == [((0..(n - 1)) \ keptSet) -> {0, 1}]
    IN  CSum([t \in assignments |->
                CMul(state[BasisIndex(r, t, kept, n)],
                     <<state[BasisIndex(c, t, kept, n)][1],
                       0 - state[BasisIndex(c, t, kept, n)][2]>>)],
             assignments)

\* C24: for a state of length 2^n and a keep list of distinct indices below
\* n, partial_trace returns the matrix of 2^|keep| rows and columns whose
\* entry (r, c) is the sum over the assignments t of the traced subsystems of
\* state[index(r, t)] * conj(state[index(c, t)]), subsystem 0 the most
\* significant bit and the kept subsystems in ascending order whatever the
\* order of the list; with all subsystems kept, the full outer product.
C24_PartialTrace ==
    c_fn = "partial_trace" =>
        LET d == 2 ^ Len(c_args.keep) IN
        /\ DOMAIN c_ret = 0..(d - 1)
        /\ \A r \in 0..(d - 1) :
            /\ DOMAIN c_ret[r] = 0..(d - 1)
            /\ \A c \in 0..(d - 1) :
                c_ret[r][c] = Reference(c_args.state, c_args.keep, c_args.n, r, c)

\* partial_trace kept subsystem 1 of the state (|00> + i|01> + |10>) and
\* returned a matrix with an imaginary entry off the diagonal.
C24_Witness ==
    /\ c_fn = "partial_trace"
    /\ c_args.n = 2
    /\ c_args.keep = <<1>>
    /\ c_args.state = [r \in 0..3 |-> IF r = 1 THEN <<0, 1>>
                                     ELSE IF r = 3 THEN <<0, 0>> ELSE <<1, 0>>]
    /\ c_ret[0][0] = <<2, 0>>
    /\ c_ret[0][1] = <<0, 0 - 1>>
    /\ c_ret[1][1] = <<1, 0>>

\* What one call of time_dependent_evolution returns when no other call is
\* in progress: the entries of its steps, in order.
SoloHistory(args) ==
    [i \in 1..Steps(args.duration, args.dt) |->
        Entry(StepTime(i - 1, args.dt),
              args.hamiltonian[StepTime(i - 1, args.dt)])]

RECURSIVE SoloStepGates(_, _, _, _)
SoloStepGates(args, n, step, q) ==
    IF q >= n THEN <<>>
    ELSE Tagged(step, GatesFor(q, n, SoloHistory(args)[step + 1], args.dt))
         \o SoloStepGates(args, n, step, q + 1)

\* The calls its apply_gate_fn receives when no other call is in progress.
RECURSIVE SoloGates(_, _, _)
SoloGates(args, n, step) ==
    IF step >= Steps(args.duration, args.dt) THEN <<>>
    ELSE SoloStepGates(args, n, step, 0) \o SoloGates(args, n, step + 1)

\* C23: two calls of time_dependent_evolution interleaved at arbitrary points
\* on one PDEHamiltonian, each with its own gate callback, return the history
\* and make the gate calls that each makes alone, and no step of either
\* writes n_qubits or time.
C23_Interleaved ==
    /\ [](\A r \in DOMAIN runs :
            runs[r].pc = "done" =>
                /\ runs[r].ret = SoloHistory(runs[r].args)
                /\ runs[r].gates = SoloGates(runs[r].args, p_n, 0))
    /\ [][p_n' = p_n /\ p_time' = p_time]_vars

\* Both calls have returned, each took steps while the other was in
\* progress, their arguments differ and RY was applied.
C23_Witness ==
    /\ Len(runs) = 2
    /\ \A r \in DOMAIN runs :
          runs[r].pc = "done" /\ runs[r].met /\ Len(runs[r].ret) >= 2
    /\ runs[1].args # runs[2].args
    /\ \E i \in DOMAIN runs[1].gates : runs[1].gates[i].kind = "RY"

\* C29: after SPSAOptimizer.optimize, compute_fisher_information,
\* optimize_step, _estimate_gradient and HybridOptimizer.optimize return, the
\* caller's array holds the values it held before the call, and the array
\* returned is another array than the caller's.
C29_CallerArrayKept ==
    c_fn # "none" =>
        /\ c_ret.heap[1] = c_args.params
        /\ c_ret.ref # 1

\* HybridOptimizer.optimize has returned after a QNG step on two parameters,
\* arrays were changed in place during the call, and the array returned holds
\* the values of the caller's.
C29_Witness ==
    /\ c_fn = "HybridOptimizer.optimize"
    /\ Len(c_args.params) = 2
    /\ Len(c_args.steps) >= 1
    /\ \E r \in DOMAIN c_ret.heap :
          /\ Len(c_ret.heap[r]) = 2
          /\ c_ret.heap[r][1] > c_args.params[1]
    /\ c_ret.heap[c_ret.ref] = c_args.params

====
